---- MODULE Spec2Model ----
(***************************************************************************)
(* borgcube: the advisory lock of LockableObject (backend/model.py), the   *)
(* start of main() (main.py, frontend/commandline.py), the remote sessions *)
(* of RemoteCommand (frontend/remote_command.py, frontend/shell.py) and    *)
(* the quota ledger of Repository (backend/model.py, backend/storage.py).  *)
(*                                                                         *)
(* The specifications share one ledger:                                    *)
(*   SpecLock    processes calling LockableObject.lock on one entity       *)
(*   SpecStart   one invocation of main() up to the command object         *)
(*   SpecServe   remote sessions running RemoteCommand                     *)
(*   SpecQuota   shell commands creating repositories and setting quotas   *)
(*   SpecKeys    shell commands setting the SSH keys                       *)
(*   SpecSetter  the steps of "repo quota" in one shell                    *)
(*   SpecRace    the steps of "repo quota" in concurrent shells            *)
(*   SpecOverlap "repo quota" beside running serve sessions                *)
(*   SpecAdmin   "borgcube add" and "borgcube delete" beside the shell     *)
(*   SpecSweep   the notification sweep of "borgcube cron"                 *)
(*   SpecRegen   "borgcube regen" beside the key commands of one shell     *)
(*   SpecLimit   Repository.new in concurrent shells of one principal      *)
(***************************************************************************)
EXTENDS Integers, Sequences, FiniteSets, TLC

(***************************************************************************)
(* Bounds of the model.                                                    *)
(***************************************************************************)
\* number of operating-system processes that use the lock
NProcs == 2
\* timeout_sec / sleep(5): polls after which lock() gives up
TimeoutPolls == 2
\* nesting depth of "with obj.lock():" blocks in one process
MaxDepth == 2
\* number of SSH connections
NSess == 2
\* highest value of the engine's transaction counter
MaxTx == 2
\* number of principals and of repository names
NUsers == 2
NRepos == 2
\* bytes in a gigabyte (1000 * 1000 * 1000 in the program), scaled down
GB == 2
\* quota of every principal, in gigabytes
UserQuotaGB == 3
\* changes of the ledger and of the storage tree made by shell commands and
\* by the backup engine
MaxChanges == 4
\* SSH public keys that principals offer
NKeys == 2
\* key changes made by shell commands
MaxKeyChanges == 2
\* quota changes made by concurrent shells
MaxQuotaChanges == 1
\* the day of the dispatcher's run, the largest num_days, and the RepoLog rows
\* of a repository
MaxTime == 2
MaxDays == 1
MaxEntries == 2
\* max_repo_count of the rows whose limit is to be reached (default: 10)
RepoLimit == 1

VARIABLES
    \* ---- LockableObject: one entity row and the processes using it ----
    locked,      \* the row's `locked` column in the database (0 = free)
    alive,       \* alive[p]: psutil.pid_exists(p)
    pc,          \* pc[p]: position of process p inside lock()
    mem,         \* mem[p]: self.locked of the model instance process p holds
    rec,         \* rec[p]: local `recursive` of the lock() call in progress
    slept,       \* slept[p]: sleep(5) calls made by the lock() call in progress
    guards,      \* guards[p]: `recursive` of every guard p is inside, outermost first
    lastExit,    \* lastExit[p]: how p left a guard since its last lock() call
                 \*   ("none", "return", "error")
    wait         \* wait[p]: what happened to the holder p's lock() call found:
                 \*   "held"     a live process other than p held the row at the call
                 \*   "released" that holder released before p's timeout elapsed and
                 \*              nobody has claimed the row since
                 \*   "none"     otherwise

lockVars == <<locked, alive, pc, mem, rec, slept, guards, lastExit, wait>>

VARIABLES
    \* ---- the ledger (sqlite), the storage tree and the backup engine ----
    userQuota,   \* userQuota[u]: User.quota, bytes
    repoOwner,   \* repoOwner[r]: Repository.user of row r, NoUser when there is no row
    repoQuota,   \* repoQuota[r]: Repository._quota, bytes
    repoDir,     \* repoDir[<<u, r>>]: the directory backups/u/r exists
    isBorg,      \* isBorg[<<u, r>>]: the directory holds an initialised borg repository
    usage,       \* usage[<<u, r>>]: storage_quota_use in the engine's hints, bytes
    borgQuota,   \* borgQuota[<<u, r>>]: storage_quota in the engine's config, bytes
    txid,        \* txid[r]: the engine's transaction counter (0: no transaction yet)
    repoLog,     \* repoLog[r]: operations of the RepoLog rows of repository r, in
                 \*   insertion order (the program reads the table per repository)
    changes      \* shell commands and engine writes so far that changed any of the above

ledgerVars == <<userQuota, repoOwner, repoQuota, repoDir, isBorg, usage, borgQuota, txid, repoLog,
                changes>>

VARIABLES
    \* ---- RemoteCommand: one process per SSH connection ----
    session,     \* session[s]: position, key_type, user and repo of the process of session s
    ended        \* how the session process that ended in the last step ended: the
                 \*   exception raised first, the error it ended with (or "ok") and
                 \*   proc.returncode; NotEnded when no process ended in that step

sessVars == <<session, ended>>

VARIABLES
    \* ---- the principals' login keys (User rows) and the UserLog table ----
    userKey,     \* userKey[u]: User._ssh_key (0 = NULL)
    backupKey,   \* backupKey[u]: User._backup_ssh_key (0 = NULL)
    userLog,     \* userLog[u]: operations of the UserLog rows of principal u
    appendKey,   \* appendKey[r]: Repository._append_ssh_key (0 = NULL)
    rwKey,       \* rwKey[r]: Repository._rw_ssh_key (0 = NULL)
    authKeys,    \* the entries of the authorized_keys file
    reply        \* what the last command given to a shell or to the setter came to

shellVars == <<userKey, backupKey, userLog, appendKey, rwKey, authKeys, reply>>

VARIABLES
    \* ---- main(): one invocation of the executable, up to the command object ----
    start        \* the environment, the position in main() and the outcome

VARIABLES
    \* ---- the principals: User rows and the directories backups/<name> ----
    userRow,     \* userRow[u]: the ledger holds a User row of u
    userDir,     \* userDir[u]: the directory backups/u exists
    maxRepos     \* maxRepos[u]: the column max_repo_count of the row of u

principalVars == <<userRow, userDir, maxRepos>>

VARIABLES
    \* ---- NotificationDispatcher: one run of "borgcube cron" ----
    sweep        \* the dates the run reads, its position in the loop over the
                 \*   users, and what it found and sent so far

vars == <<lockVars, ledgerVars, sessVars, shellVars, start, principalVars, sweep>>

Procs == 1..NProcs

(***************************************************************************)
(* The ledger                                                              *)
(***************************************************************************)

\* User.id and Repository.id; a repository's name stands for its id
Users == 1..NUsers
Repos == 1..NRepos
NoUser == 0
NoRepo == 0

\* Storage.repo_path(user_name, repo_name)
Paths == Users \X Repos

\* Repository.path of row r
PathOf(r) == <<repoOwner[r], r>>

\* a ledger with the principals and no repository
LedgerInit ==
    /\ userQuota = [u \in Users |-> UserQuotaGB * GB]
    /\ repoOwner = [r \in Repos |-> NoUser]
    /\ repoQuota = [r \in Repos |-> 0]
    /\ repoDir = [d \in Paths |-> FALSE]
    /\ isBorg = [d \in Paths |-> FALSE]
    /\ usage = [d \in Paths |-> 0]
    /\ borgQuota = [d \in Paths |-> 0]
    /\ txid = [r \in Repos |-> 0]
    /\ repoLog = [r \in Repos |-> <<>>]
    /\ changes = 0

\* the owner of repository r in the ledger the serve sessions start from
OwnerAtStart(r) == ((r - 1) % NUsers) + 1

\* a ledger in which every repository was created with a quota of 1 GB;
\* repository 1 has not been initialised yet, the others have seen one
\* transaction
LedgerWithRepos ==
    /\ userQuota = [u \in Users |-> UserQuotaGB * GB]
    /\ repoOwner = [r \in Repos |-> OwnerAtStart(r)]
    /\ repoQuota = [r \in Repos |-> GB]
    /\ repoDir = [d \in Paths |-> d[1] = OwnerAtStart(d[2])]
    /\ isBorg = [d \in Paths |-> d[1] = OwnerAtStart(d[2]) /\ d[2] # 1]
    /\ usage = [d \in Paths |-> 0]
    /\ borgQuota = [d \in Paths |-> 0]
    /\ txid = [r \in Repos |-> IF r = 1 THEN 0 ELSE 1]
    /\ repoLog = [r \in Repos |-> <<"CREATE_REPO">>]
    /\ changes = 0

\* RepoLog.log(repo, operation, data)
LoggedTo(log, r, op) == [log EXCEPT ![r] = Append(@, op)]
Logged(r, op) == LoggedTo(repoLog, r, op)

\* math.floor(self.quota / 1000 / 1000 / 1000)
QuotaGb(r) == repoQuota[r] \div GB

(***************************************************************************)
(* LockableObject.lock                                                     *)
(***************************************************************************)

\* psutil.pid_exists(pid)
PidExistsIgnoringLiveness(pid) == pid \in Procs
PidExists(pid) == pid \in Procs /\ alive[pid]

\* "now - begin < timeout_sec", with now - begin = 5 * slept
TimeoutNotReachedOffByOne(n) == n <= TimeoutPolls
TimeoutNotReached(n) == n < TimeoutPolls

\* the process is inside at least one guarded section
InSection(p) == Len(guards[p]) > 0

LockInit ==
    /\ locked = 0
    /\ alive = [p \in Procs |-> TRUE]
    /\ pc = [p \in Procs |-> "idle"]
    /\ mem = [p \in Procs |-> 0]
    /\ rec = [p \in Procs |-> FALSE]
    /\ slept = [p \in Procs |-> 0]
    /\ guards = [p \in Procs |-> <<>>]
    /\ lastExit = [p \in Procs |-> "none"]
    /\ wait = [p \in Procs |-> "none"]

\* Model.get(...): the process fetches the row; self.locked is a copy of the column
Load(p) ==
    /\ alive[p] /\ pc[p] = "idle" /\ ~InSection(p)
    /\ mem[p] # locked
    /\ mem' = [mem EXCEPT ![p] = locked]
    /\ UNCHANGED <<locked, alive, pc, rec, slept, guards, lastExit, wait>>
    /\ UNCHANGED <<ledgerVars, sessVars, shellVars, start, sweep, principalVars>>

\* lock(): begin = time(); recursive = False
LockCall(p) ==
    /\ alive[p] /\ pc[p] \in {"idle", "section"}
    /\ Len(guards[p]) < MaxDepth
    /\ pc' = [pc EXCEPT ![p] = "loop"]
    /\ rec' = [rec EXCEPT ![p] = FALSE]
    /\ slept' = [slept EXCEPT ![p] = 0]
    /\ wait' = [wait EXCEPT ![p] =
                 IF locked # 0 /\ locked # p /\ PidExists(locked) /\ mem[p] = locked
                 THEN "held" ELSE "none"]
    /\ lastExit' = [lastExit EXCEPT ![p] = "none"]
    /\ UNCHANGED <<locked, alive, mem, guards>>
    /\ UNCHANGED <<ledgerVars, sessVars, shellVars, start, sweep, principalVars>>

\* one evaluation of the while condition and of the loop body
Poll(p) ==
    /\ alive[p] /\ pc[p] = "loop"
    /\ IF mem[p] # 0 /\ PidExists(mem[p])
       THEN IF p = mem[p]
            THEN \* recursive lock: break
                 /\ rec' = [rec EXCEPT ![p] = TRUE]
                 /\ pc' = [pc EXCEPT ![p] = "atomic"]
                 /\ UNCHANGED slept
            ELSE IF TimeoutNotReached(slept[p])
            THEN \* sleep(5)
                 /\ slept' = [slept EXCEPT ![p] = @ + 1]
                 /\ UNCHANGED <<pc, rec>>
            ELSE \* raise DatabaseObjectLockedError
                 /\ pc' = [pc EXCEPT ![p] = "failed"]
                 /\ UNCHANGED <<slept, rec>>
       ELSE /\ pc' = [pc EXCEPT ![p] = "atomic"]
            /\ UNCHANGED <<slept, rec>>
    /\ UNCHANGED <<locked, alive, mem, guards, lastExit, wait>>
    /\ UNCHANGED <<ledgerVars, sessVars, shellVars, start, sweep, principalVars>>

\* with _db.atomic(): the re-check reads self.locked, the in-memory copy
Claim(p) == mem[p] = 0 \/ p = mem[p]

\* the atomic block, then the guard is entered (yield)
Atomic(p) ==
    /\ alive[p] /\ pc[p] = "atomic"
    /\ IF Claim(p)
       THEN /\ mem' = [mem EXCEPT ![p] = p]
            /\ locked' = p
            /\ wait' = [q \in Procs |->
                  IF q = p \/ wait[q] = "released" THEN "none" ELSE wait[q]]
       ELSE /\ wait' = [wait EXCEPT ![p] = "none"]
            /\ UNCHANGED <<mem, locked>>
    /\ guards' = [guards EXCEPT ![p] = Append(@, rec[p])]
    /\ pc' = [pc EXCEPT ![p] = "section"]
    /\ rec' = [rec EXCEPT ![p] = FALSE]
    /\ UNCHANGED <<alive, slept, lastExit>>
    /\ UNCHANGED <<ledgerVars, sessVars, shellVars, start, sweep, principalVars>>

\* the innermost guard of p is a releasing one ("if not recursive")
ReleasesAlways(p) == TRUE
ReleasesInverted(p) == guards[p][Len(guards[p])]
Releases(p) == ~guards[p][Len(guards[p])]

\* finally: the innermost guard of p is left
Finally(p, how) ==
    /\ alive[p] /\ pc[p] = "section" /\ InSection(p)
    /\ IF Releases(p)
       THEN /\ mem' = [mem EXCEPT ![p] = 0]
            /\ locked' = 0
            /\ wait' = [q \in Procs |->
                  IF /\ q # p /\ pc[q] = "loop" /\ mem[q] = p
                     /\ wait[q] = "held" /\ slept[q] < TimeoutPolls
                  THEN "released" ELSE wait[q]]
       ELSE UNCHANGED <<mem, locked, wait>>
    /\ guards' = [guards EXCEPT ![p] = SubSeq(@, 1, Len(@) - 1)]
    /\ pc' = [pc EXCEPT ![p] = IF Len(guards[p]) = 1 THEN "idle" ELSE "section"]
    /\ lastExit' = [lastExit EXCEPT ![p] = how]
    /\ slept' = [slept EXCEPT ![p] = 0]
    /\ UNCHANGED <<alive, rec>>
    /\ UNCHANGED <<ledgerVars, sessVars, shellVars, start, sweep, principalVars>>

\* the guarded section returns
ExitNormal(p) == Finally(p, "return")

\* an error is raised inside the guarded section
ExitError(p) == Finally(p, "error")

\* DatabaseObjectLockedError reaches the caller of lock()
Failed(p) ==
    /\ alive[p] /\ pc[p] = "failed"
    /\ pc' = [pc EXCEPT ![p] = IF InSection(p) THEN "section" ELSE "idle"]
    /\ slept' = [slept EXCEPT ![p] = 0]
    /\ wait' = [wait EXCEPT ![p] = "none"]
    /\ UNCHANGED <<locked, alive, mem, rec, guards, lastExit>>
    /\ UNCHANGED <<ledgerVars, sessVars, shellVars, start, sweep, principalVars>>

\* the process ends (exit, or a kill that runs no finally clause): its memory
\* is gone, the row keeps whatever it wrote last
Terminate(p) ==
    /\ alive[p]
    /\ alive' = [alive EXCEPT ![p] = FALSE]
    /\ pc' = [pc EXCEPT ![p] = "dead"]
    /\ mem' = [mem EXCEPT ![p] = 0]
    /\ rec' = [rec EXCEPT ![p] = FALSE]
    /\ slept' = [slept EXCEPT ![p] = 0]
    /\ guards' = [guards EXCEPT ![p] = <<>>]
    /\ lastExit' = [lastExit EXCEPT ![p] = "none"]
    /\ wait' = [wait EXCEPT ![p] = "none"]
    /\ UNCHANGED locked
    /\ UNCHANGED <<ledgerVars, sessVars, shellVars, start, sweep, principalVars>>

NextLock ==
    \E p \in Procs :
        \/ Load(p)
        \/ LockCall(p)
        \/ Poll(p)
        \/ Atomic(p)
        \/ ExitNormal(p)
        \/ ExitError(p)
        \/ Failed(p)
        \/ Terminate(p)


(***************************************************************************)
(* RemoteCommand: the environment of an SSH connection                     *)
(***************************************************************************)

Sess == 1..NSess

\* values of BORGCUBE_KEY_TYPE, BORGCUBE_USER and BORGCUBE_REPO
KeyTypeEnv == {"absent", "x", "9", "1", "2", "3", "4", "5"}
IdEnv == {"absent", "x", "7", "1", "2"}
\* values of LOGNAME
LognameEnv == {"absent", "wrong", "borgcube"}
\* the command baked into the authorized_keys entry
Commands == {"absent", "BORGCUBE_COMMAND_SHELL", "BORGCUBE_COMMAND_BORG_SERVE", "sh"}
\* shlex.split(SSH_ORIGINAL_COMMAND)
OrigCommands == {<<"borg", "serve">>, <<"sh", "serve">>, <<"borg", "init">>, <<"borg">>}

\* the command line and SSH_ORIGINAL_COMMAND, read by _parse_remote_command
Requests ==
    [command : Commands, hasOrig : {TRUE}, orig : OrigCommands]
    \cup [command : Commands, hasOrig : {FALSE}, orig : {<<>>}]

\* int(text): -1 stands for ValueError
ParseInt(text) ==
    CASE text = "1" -> 1 [] text = "2" -> 2 [] text = "3" -> 3 [] text = "4" -> 4
      [] text = "5" -> 5 [] text = "7" -> 7 [] text = "9" -> 9 [] OTHER -> -1

\* enum.py: AuthorizedKeyType
USER == 1
USER_BACKUP == 2
REPO_APPEND == 3
REPO_RW == 4
ADMIN_IMPERSONATE == 5
AuthorizedKeyType == {USER, USER_BACKUP, REPO_APPEND, REPO_RW, ADMIN_IMPERSONATE}

\* How an invocation ends: "ok", or the error raised, named by what its
\* message says:
\*   "missing X"     CommandMissingBorgcubeEnvironmentVariableError(X)
\*   "LOGNAME", "inconsistent repo and user", "inconsistent environment"
\*                   the other CommandEnvironmentErrors
\*   "db"            DatabaseError (no such principal, no such repository)
\*   "user key for borg serve", "repo key for shell", "only borg serve",
\*   "command not permitted", "repository key for shell"
\*                   the RemoteCommandErrors of lines 92, 99, 103, 105 and 150
\*   "AttributeError: repo"   line 84 reads self.repo, which was never assigned
\*   "AttributeError: path"   self.repo.path when self.repo is None
\*   "IndexError"             shlex.split(...)[1] of a single word
MissingVariable == {"missing BORGCUBE_KEY_TYPE", "missing BORGCUBE_USER", "missing SSH command"}
EnvironmentErrors ==
    MissingVariable \cup {"LOGNAME", "inconsistent repo and user", "inconsistent environment"}

\* the RemoteCommandErrors, named by what their message says
RemoteCommandErrors ==
    {"user key for borg serve", "repo key for shell", "only borg serve",
     "command not permitted", "repository key for shell"}

\* exceptions that are no BorgcubeError
Crashes == {"AttributeError: repo", "AttributeError: path", "IndexError"}

\* exception.py: the class of the error an invocation ends with
ErrorClass(result) ==
    IF result \in EnvironmentErrors THEN "CommandEnvironmentError"
    ELSE IF result = "db" THEN "DatabaseError"
    ELSE IF result \in RemoteCommandErrors THEN "RemoteCommandError"
    ELSE IF result \in Crashes THEN "Exception"
    ELSE "none"

\* _parse_env swallows a ValueError (line 83 builds the error and drops it);
\* the read of the unset self.repo on line 84 then raises AttributeError.
\* Every other exception leaves the process as it was raised.
ParseEnvOutcome(raised) ==
    IF raised = "ValueError" THEN "AttributeError: repo" ELSE raised

\* what a _parse_* method returns, or the exception it raises
Parsed(err, value) == [err |-> err, value |-> value]

\* RemoteCommand._parse_key_type: int() and AuthorizedKeyType() both raise
\* ValueError
ParseKeyType(text) ==
    IF text = "absent" THEN Parsed("missing BORGCUBE_KEY_TYPE", 0)
    ELSE IF ParseInt(text) \notin AuthorizedKeyType THEN Parsed("ValueError", 0)
    ELSE Parsed("none", ParseInt(text))

\* RemoteCommand._parse_user
ParseUser(logname, text) ==
    IF logname # "borgcube" THEN Parsed("LOGNAME", NoUser)
    ELSE IF text = "absent" THEN Parsed("missing BORGCUBE_USER", NoUser)
    ELSE IF ParseInt(text) = -1 THEN Parsed("ValueError", NoUser)
    ELSE IF ParseInt(text) \notin Users THEN Parsed("db", NoUser)
    ELSE Parsed("none", ParseInt(text))

\* "self.repo.user != self.user" of _parse_env
OwnerDiffersNever(r, u) == FALSE
OwnerDiffers(r, u) == repoOwner[r] # u

\* RemoteCommand._parse_repo, and the owner test of _parse_env
ParseRepo(text, u) ==
    IF text = "absent" THEN Parsed("none", NoRepo)
    ELSE IF ParseInt(text) = -1 THEN Parsed("ValueError", NoRepo)
    ELSE IF ParseInt(text) \notin Repos THEN Parsed("db", NoRepo)
    ELSE IF repoOwner[ParseInt(text)] = NoUser THEN Parsed("db", NoRepo)
    ELSE IF OwnerDiffers(ParseInt(text), u) THEN Parsed("inconsistent repo and user", NoRepo)
    ELSE Parsed("none", ParseInt(text))

\* RemoteCommand._parse_remote_command: the handler chosen for the command, or
\* the error raised
ParseRemoteCommand(req) ==
    IF req.command = "absent" THEN "missing SSH command"
    ELSE IF req.command = "BORGCUBE_COMMAND_SHELL"
    THEN IF req.hasOrig THEN "user key for borg serve" ELSE "_run_shell"
    ELSE IF req.command = "BORGCUBE_COMMAND_BORG_SERVE"
    THEN IF ~req.hasOrig THEN "repo key for shell"
         ELSE IF Len(req.orig) < 2 THEN "IndexError"
         ELSE IF req.orig[2] # "serve" THEN "only borg serve"
         ELSE "_run_borg_command"
    ELSE "command not permitted"

\* the copy of a User row that a model instance holds
UserRow(u) == [key |-> userKey[u], backup |-> backupKey[u]]
NoRow == [key |-> 0, backup |-> 0]

\* the shell command in progress: args.repo, self.quota of that instance and
\* the new quota
NoCommand == [repo |-> NoRepo, old |-> 0, new |-> 0]

\* what a shell prints last: a message, and the size the message names
SaysSize(text, size) == [text |-> text, size |-> size]
Says(text) == SaysSize(text, 0)

\* a session whose process has not read its environment yet
Fresh ==
    [pc |-> "init", keyType |-> 0, user |-> NoUser, urow |-> NoRow, repo |-> NoRepo,
     orig |-> <<>>, argv |-> <<>>, cwd |-> <<>>, txBefore |-> 0, cmd |-> NoCommand]

\* a session whose process has ended
Done == [Fresh EXCEPT !.pc = "done"]

\* no session process ended
NotEnded == [raised |-> "none", result |-> "none", rc |-> 0]

\* the process of session s ends with exit code rc, or with the error that
\* _parse_env makes of the exception `raised`
End(s, raised, rc) ==
    /\ session' = [session EXCEPT ![s] = Done]
    /\ ended' = [raised |-> raised, result |-> ParseEnvOutcome(raised), rc |-> rc]

\* the process of session s goes on as `next`
Goes(s, next) ==
    /\ session' = [session EXCEPT ![s] = next]
    /\ ended' = NotEnded

SessionInit ==
    /\ session = [s \in Sess |-> Fresh]
    /\ ended = NotEnded

\* the key types _run_shell admits
ShellKeyTypesAll == AuthorizedKeyType
ShellKeyTypes == {USER, USER_BACKUP}

\* Steps that read and write nothing but the process's own memory, and reads
\* of rows that no session writes (the repositories' owners are fixed while
\* sessions run), commute with the steps of the other sessions.  A session
\* whose next step is of that kind, or follows only such steps, takes it
\* before any other session moves, which loses no outcome:
\*   - _parse_env after _parse_key_type, and _parse_args (BaseCommand.__init__
\*     has no suspension point);
\*   - the key_type test of _run_shell when it fails;
\*   - _run_borg_command up to the Popen call: until it reads the transaction
\*     counter the session has read only its environment and fixed rows.
\* A session about to start the shell holds a copy of its User row that other
\* sessions may overwrite: it is not of that kind.
Parsing(s) ==
    \/ session[s].pc \in {"_parse_user", "_parse_repo", "_parse_args"}
    \/ session[s].pc = "_run_shell" /\ session[s].keyType \notin ShellKeyTypes
    \/ session[s].pc \in {"_run_borg_command", "begun"}
Ready(s) == \A t \in Sess \ {s} : ~Parsing(t)

\* Commandline.__init__ builds a RemoteCommand only when _is_remote found
\* BORGCUBE_KEY_TYPE in the environment
RemoteKeyTypeEnv == KeyTypeEnv \ {"absent"}

\* _parse_env: self.key_type = self._parse_key_type(); connections are numbered
\* in the order in which they arrive
Connect(s) ==
    /\ session[s].pc = "init" /\ Ready(s)
    /\ \A t \in Sess : t < s => session[t].pc # "init"
    /\ \E text \in RemoteKeyTypeEnv :
         LET e == ParseKeyType(text)
         IN  IF e.err = "none"
             THEN Goes(s, [session[s] EXCEPT !.pc = "_parse_user", !.keyType = e.value])
             ELSE End(s, e.err, 0)
    /\ UNCHANGED <<lockVars, ledgerVars, shellVars, start, sweep, principalVars>>

\* _parse_env: self.user = self._parse_user()
ResolveUser(s) ==
    /\ session[s].pc = "_parse_user"
    /\ \E logname \in LognameEnv, text \in IdEnv :
         LET e == ParseUser(logname, text)
         IN  IF e.err = "none"
             THEN Goes(s, [session[s] EXCEPT !.pc = "_parse_repo", !.user = e.value,
                                             !.urow = UserRow(e.value)])
             ELSE End(s, e.err, 0)
    /\ UNCHANGED <<lockVars, ledgerVars, shellVars, start, sweep, principalVars>>

\* _parse_env: self.repo = self._parse_repo(), and the owner test
ResolveRepo(s) ==
    /\ session[s].pc = "_parse_repo"
    /\ \E text \in IdEnv :
         LET e == ParseRepo(text, session[s].user)
         IN  IF e.err = "none"
             THEN Goes(s, [session[s] EXCEPT !.pc = "_parse_args", !.repo = e.value])
             ELSE End(s, e.err, 0)
    /\ UNCHANGED <<lockVars, ledgerVars, shellVars, start, sweep, principalVars>>

\* BaseCommand.__init__: self._parse_args(), and RemoteCommand.run up to the
\* call of the handler ("SSH command" is reported missing when there is none).
\* Only the shell reads the columns of the User row again.
ParseArgsOf(s, requests) ==
    /\ session[s].pc = "_parse_args"
    /\ \E req \in requests :
         LET h == ParseRemoteCommand(req)
         IN  IF h = "_run_shell"
             THEN Goes(s, [session[s] EXCEPT !.pc = h])
             ELSE IF h = "_run_borg_command"
             THEN Goes(s, [session[s] EXCEPT !.pc = h, !.orig = req.orig, !.urow = NoRow])
             ELSE End(s, h, 0)
    /\ UNCHANGED <<lockVars, ledgerVars, shellVars, start, sweep, principalVars>>

ParseArgs(s) == ParseArgsOf(s, Requests)

\* Storage.get_repo_transaction_id(repo): the engine's transaction counter,
\* None (here 0) before the first transaction
TransactionId(r) == txid[r]

\* the flag list that follows the quota on the command line (lines 115-118)
AppendFlagAlways(keyType) == <<"--append-only">>
AppendFlag(keyType) == IF keyType = REPO_APPEND THEN <<"--append-only">> ELSE <<>>

\* the command list of lines 109-118
BorgCommand(r, keyType) ==
    <<"borg", "serve", "--restrict-to-path", ToString(PathOf(r)),
      "--storage-quota", ToString(QuotaGb(r)) \o "G">>
    \o AppendFlag(keyType)

\* _run_borg_command, lines 109-122: the command line, the counter before the
\* run and the SERVE_REPO_BEGIN entry
ServeBegin(s) ==
    /\ session[s].pc = "_run_borg_command" /\ Ready(s)
    /\ IF session[s].repo = NoRepo
       THEN \* self.repo.path
            /\ End(s, "AttributeError: path", 0)
            /\ UNCHANGED repoLog
       ELSE /\ Goes(s, [session[s] EXCEPT
                            !.pc = "begun",
                            !.argv = BorgCommand(session[s].repo, session[s].keyType),
                            !.txBefore = TransactionId(session[s].repo)])
            /\ repoLog' = Logged(session[s].repo, "SERVE_REPO_BEGIN")
    /\ UNCHANGED <<shellVars, start, sweep, principalVars, lockVars, userQuota, repoOwner, repoQuota, repoDir,
                   isBorg, usage, borgQuota, txid, changes>>

\* Popen(command, ..., cwd=self.user.path, env=self._stripped_env): the
\* subprocess gets SSH_ORIGINAL_COMMAND; this process does not read it again
Spawn(s) ==
    /\ session[s].pc = "begun" /\ Ready(s)
    /\ Goes(s, [session[s] EXCEPT !.pc = "running", !.cwd = <<session[s].user>>,
                                  !.orig = <<>>])
    /\ UNCHANGED <<lockVars, ledgerVars, shellVars, start, sweep, principalVars>>

\* the borg serve subprocess of session s is running
Running(s) == session[s].pc = "running"

\* the running subprocess commits a transaction to the repository
EngineCommit(s) ==
    /\ Running(s) /\ Ready(s)
    /\ txid[session[s].repo] < MaxTx
    /\ txid' = [txid EXCEPT ![session[s].repo] = @ + 1]
    /\ Goes(s, session[s])
    /\ UNCHANGED <<shellVars, start, sweep, principalVars, lockVars, userQuota, repoOwner, repoQuota, repoDir,
                   isBorg, usage, borgQuota, repoLog, changes>>

\* "transaction_id_before and new_transaction_id and new > before"
Modified(before, new) == before # 0 /\ new # 0 /\ new > before

\* the entries of lines 136-143 for exit code rc
ExitEntriesIgnoringCode(rc, before, new) == <<"SERVE_REPO_SUCCESS">>
ExitEntries(rc, before, new) ==
    <<IF rc = 0 THEN "SERVE_REPO_SUCCESS" ELSE "SERVE_REPO_ABORT">>
    \o (IF Modified(before, new)
        THEN <<IF rc = 0 THEN "SERVE_MODIFY_SUCCESS" ELSE "SERVE_MODIFY_ABORT">>
        ELSE <<>>)

\* exit codes of the borg serve subprocess
ReturnCodes == {0, 1}

\* proc.wait() returns; lines 134-146
ProcExit(s) ==
    /\ Running(s) /\ Ready(s)
    /\ \E rc \in ReturnCodes :
         LET r == session[s].repo
         IN  /\ repoLog' = [repoLog EXCEPT ![r] =
                    @ \o ExitEntries(rc, session[s].txBefore, TransactionId(r))]
             /\ End(s, "ok", rc)
    /\ UNCHANGED <<shellVars, start, sweep, principalVars, lockVars, userQuota, repoOwner, repoQuota, repoDir,
                   isBorg, usage, borgQuota, txid, changes>>

\* Shell.parse_connection applied to the session's copy of the User row:
\* user_key_delete_backup sets backup_ssh_key to None (shell.py lines 64-71,
\* 114-116); it writes no log entry
ParseConnection(keyType, row) ==
    IF keyType = USER /\ row.backup # 0 THEN [row EXCEPT !.backup = 0] ELSE row

\* _run_shell: the key_type test, then Shell.run up to the prompt:
\* parse_connection and welcome_msg, whose save() writes every column of the
\* session's copy of the row
RunShell(s) ==
    /\ session[s].pc = "_run_shell" /\ Ready(s)
    /\ IF session[s].keyType \notin ShellKeyTypes
       THEN /\ End(s, "repository key for shell", 0)
            /\ UNCHANGED <<userKey, backupKey>>
       ELSE LET u == session[s].user
                row == ParseConnection(session[s].keyType, session[s].urow)
            IN  /\ Goes(s, [session[s] EXCEPT !.pc = "loop", !.urow = row])
                /\ userKey' = [userKey EXCEPT ![u] = row.key]
                /\ backupKey' = [backupKey EXCEPT ![u] = row.backup]
    /\ UNCHANGED <<lockVars, ledgerVars, userLog, appendKey, rwKey, authKeys, reply, start, sweep, principalVars>>

\* Shell.loop ends: "exit", end of input or an interrupt
ShellExit(s) ==
    /\ session[s].pc = "loop" /\ Ready(s)
    /\ End(s, "ok", 0)
    /\ UNCHANGED <<lockVars, ledgerVars, shellVars, start, sweep, principalVars>>

NextServe ==
    \E s \in Sess :
        \/ Connect(s)
        \/ ResolveUser(s)
        \/ ResolveRepo(s)
        \/ ParseArgs(s)
        \/ ServeBegin(s)
        \/ Spawn(s)
        \/ EngineCommit(s)
        \/ ProcExit(s)
        \/ RunShell(s)
        \/ ShellExit(s)

(***************************************************************************)
(* The shell's key commands and the authorized_keys file                   *)
(***************************************************************************)

\* the SSH public keys principals offer; 0 stands for NULL
Keys == 1..NKeys
\* the words after "set": none (0), text that is not an SSH key (-1), or a key
KeyArgs == {0, -1} \cup Keys

\* AuthorizedKeysFile(User.get_all()): one forced-command entry per key that a
\* User row or a Repository row of the ledger holds, in the order of the rows;
\* save_atomic() replaces the file by these entries
AuthorizedKeysFile(uk, bk, ak, rk) ==
    LET ofUsers == [i \in 1..(2 * NUsers) |->
                      IF i % 2 = 1
                      THEN [type |-> USER, id |-> (i + 1) \div 2, key |-> uk[(i + 1) \div 2]]
                      ELSE [type |-> USER_BACKUP, id |-> i \div 2, key |-> bk[i \div 2]]]
        ofRepos == [i \in 1..(2 * NRepos) |->
                      IF i % 2 = 1
                      THEN [type |-> REPO_APPEND, id |-> (i + 1) \div 2, key |-> ak[(i + 1) \div 2]]
                      ELSE [type |-> REPO_RW, id |-> i \div 2, key |-> rk[i \div 2]]]
        Active(e) == /\ e.key # 0
                     /\ e.type \in {REPO_APPEND, REPO_RW} => repoOwner[e.id] # NoUser
    IN  SelectSeq(ofUsers \o ofRepos, Active)

\* the command lines that start the shell
ShellRequests == {req \in Requests : req.command = "BORGCUBE_COMMAND_SHELL"}

\* the shell of session s reads a command
Prompt(s) == session[s].pc = "loop" /\ Ready(s) /\ changes < MaxKeyChanges

\* Shell.user_key_set: the session's copy of the User row takes the new key and
\* keeps the one it held as backup key, save() writes every column of the copy,
\* and the file is written again from the ledger
UserKeySet(s) ==
    /\ Prompt(s)
    /\ \E key \in KeyArgs :
         LET u == session[s].user
             row == session[s].urow
         IN  IF key = 0
             THEN /\ reply' = Says("Can't set empty user key")
                  /\ Goes(s, session[s])
                  /\ UNCHANGED <<userKey, backupKey, authKeys, changes>>
             ELSE IF key = -1
             THEN \* parse_ssh_key raises after backup_ssh_key was assigned
                  /\ reply' = Says("Can't set key")
                  /\ Goes(s, [session[s] EXCEPT !.urow.backup = row.key])
                  /\ UNCHANGED <<userKey, backupKey, authKeys, changes>>
             ELSE /\ reply' = Says("ok")
                  /\ changes' = changes + 1
                  /\ Goes(s, [session[s] EXCEPT !.urow = [key |-> key, backup |-> row.key]])
                  /\ userKey' = [userKey EXCEPT ![u] = key]
                  /\ backupKey' = [backupKey EXCEPT ![u] = row.key]
                  /\ authKeys' = AuthorizedKeysFile(userKey', backupKey', appendKey, rwKey)
    /\ UNCHANGED <<lockVars, userQuota, repoOwner, repoQuota, repoDir, isBorg, usage,
                   borgQuota, txid, repoLog, userLog, appendKey, rwKey, start, sweep, principalVars>>

\* lines 222 and 231: the other key of the row is set and has the fingerprint
\* of the key just assigned
SameKeyNever(other, key) == FALSE
SameKey(other, key) == other # 0 /\ other = key

\* the key_type of "set_append_key" and of "set_rw_key"
RepoKeyTypes == {"append", "rw"}

\* Shell.repo_key_set on the row that argparse_repo read for the command: the
\* assignment, the comparison with the other key of the row (which reads
\* .fingerprint of the key just assigned), save(), and the file written again
RepoKeySet(s) ==
    /\ Prompt(s)
    /\ \E r \in {x \in Repos : repoOwner[x] = session[s].user}, keyType \in RepoKeyTypes, key \in KeyArgs :
         LET other == IF keyType = "append" THEN rwKey[r] ELSE appendKey[r]
         IN  IF key = -1
             THEN /\ reply' = Says("Can't set key")
                  /\ Goes(s, session[s])
                  /\ UNCHANGED <<appendKey, rwKey, authKeys, changes>>
             ELSE IF other # 0 /\ key = 0
             THEN \* None has no fingerprint: the AttributeError ends the shell
                  /\ reply' = Says("AttributeError")
                  /\ End(s, "AttributeError: fingerprint", 1)
                  /\ UNCHANGED <<appendKey, rwKey, authKeys, changes>>
             ELSE IF SameKey(other, key)
             THEN /\ reply' = Says("Can't set key to same value")
                  /\ Goes(s, session[s])
                  /\ UNCHANGED <<appendKey, rwKey, authKeys, changes>>
             ELSE /\ reply' = Says("ok")
                  /\ changes' = changes + 1
                  /\ Goes(s, session[s])
                  /\ appendKey' = IF keyType = "append"
                                  THEN [appendKey EXCEPT ![r] = key] ELSE appendKey
                  /\ rwKey' = IF keyType = "rw" THEN [rwKey EXCEPT ![r] = key] ELSE rwKey
                  /\ authKeys' = AuthorizedKeysFile(userKey, backupKey, appendKey', rwKey')
    /\ UNCHANGED <<lockVars, userQuota, repoOwner, repoQuota, repoDir, isBorg, usage,
                   borgQuota, txid, repoLog, userKey, backupKey, userLog, start, sweep, principalVars>>

\* a regeneration that adds the entries to the file that is there
RegenAppending ==
    /\ authKeys' = authKeys \o AuthorizedKeysFile(userKey, backupKey, appendKey, rwKey)
    /\ reply' = Says("Regenerated authorized_keys file")
    /\ UNCHANGED <<lockVars, ledgerVars, sessVars, userKey, backupKey, userLog, appendKey,
                   rwKey, start, sweep, principalVars>>

\* AdminCommand._command_regen: the file is written again from the ledger
Regen ==
    /\ authKeys' = AuthorizedKeysFile(userKey, backupKey, appendKey, rwKey)
    /\ reply' = Says("Regenerated authorized_keys file")
    /\ UNCHANGED <<lockVars, ledgerVars, sessVars, userKey, backupKey, userLog, appendKey,
                   rwKey, start, sweep, principalVars>>

\* "borgcube regen" beside the key commands of a shell
NextRegen ==
    \/ Regen
    \/ \E s \in Sess : UserKeySet(s)
    \/ \E s \in Sess : RepoKeySet(s)

NextKeys ==
    \E s \in Sess :
        \/ Connect(s)
        \/ ResolveUser(s)
        \/ ResolveRepo(s)
        \/ ParseArgsOf(s, ShellRequests)
        \/ RunShell(s)
        \/ UserKeySet(s)
        \/ RepoKeySet(s)
        \/ ShellExit(s)

(***************************************************************************)
(* Repository: creation, deletion and the quota setter                     *)
(***************************************************************************)

\* User.max_repo_count
MaxRepoCount == 10
\* Repository._quota of a freshly inserted row (500 bytes: below one gigabyte)
DefaultRepoQuota == 1

\* Repository.select().where(Repository.user == user)
ReposOf(u) == {r \in Repos : repoOwner[r] = u}

RECURSIVE SumQuota(_, _)
\* "for iter_repo in repos: combined_size += iter_repo.quota", over rows
SumQuota(rows, quotas) ==
    IF rows = {} THEN 0
    ELSE LET r == CHOOSE x \in rows : TRUE
         IN  quotas[r] + SumQuota(rows \ {r}, quotas)

\* User.quota_allocated
QuotaAllocated(u) == SumQuota(ReposOf(u), repoQuota)

\* Repository.quota_used: 0 unless the directory is a borg repository
QuotaUsed(d) == IF isBorg[d] THEN usage[d] ELSE 0

\* "new_size = combined_size - self.quota + new_quota"
NewSizeWithoutSiblings(combined, old, new) == new
NewSize(combined, old, new) == combined - old + new

\* "if new_size > self.user.quota"
TooLargeNever(size, u) == FALSE
TooLarge(size, u) == size > userQuota[u]

\* Storage.set_new_quota with BorgRepo.set_new_quota_safe: what happens to the
\* engine's storage_quota: "keep" (no borg repository, or usage above the new
\* quota), "set", or "error" (StorageError: usage equals the new quota)
SetNewQuota(d, new) ==
    IF ~isBorg[d] THEN "keep"
    ELSE IF usage[d] <= new
    THEN IF usage[d] < new THEN "set" ELSE "error"
    ELSE "keep"

\* The quota setter of a Repository instance of owner u at path d, whose row
\* set is rows/quotas and whose own _quota is old: "ok" when the new quota is
\* saved, "db" for DatabaseError, "crash" for the AttributeError raised while
\* the too-small message reads the missing self.size_gb
QuotaSetter(u, d, rows, quotas, old, new) ==
    LET size == NewSize(SumQuota(rows, quotas), old, new)
    IN  IF new < 1 THEN "db"
        ELSE IF TooLarge(size, u) THEN "db"
        ELSE IF size < QuotaUsed(d) THEN "crash"
        ELSE IF SetNewQuota(d, new) = "error" THEN "db"
        ELSE "ok"

\* quota arguments of the shell commands, in gigabytes
QuotaArgs == 0..(UserQuotaGB + 1)

\* "count >= user.max_repo_count" of Repository.new
TooManyOffByOne(count, u) == count > maxRepos[u]
TooMany(count, u) == count >= maxRepos[u]

\* Repository._create in the transaction of Repository.new: mkdir, the row,
\* the quota setter and the log entry
Create(u, r, gb) ==
    LET d == <<u, r>>
        rows == ReposOf(u) \cup {r}
        quotas == [repoQuota EXCEPT ![r] = DefaultRepoQuota]
    IN  IF repoDir[d]
        THEN \* mkdir: FileExistsError
             UNCHANGED ledgerVars
        ELSE IF repoOwner[r] # NoUser
        THEN \* the name is taken: IntegrityError, the directory stays
             /\ repoDir' = [repoDir EXCEPT ![d] = TRUE]
             /\ changes' = changes + 1
             /\ UNCHANGED <<userQuota, repoOwner, repoQuota, isBorg, usage,
                            borgQuota, txid, repoLog>>
        ELSE IF QuotaSetter(u, d, rows, quotas, DefaultRepoQuota, gb * GB) = "ok"
        THEN /\ repoDir' = [repoDir EXCEPT ![d] = TRUE]
             /\ repoOwner' = [repoOwner EXCEPT ![r] = u]
             /\ repoQuota' = [repoQuota EXCEPT ![r] = gb * GB]
             /\ repoLog' = Logged(r, "CREATE_REPO")
             /\ changes' = changes + 1
             /\ UNCHANGED <<userQuota, isBorg, usage, borgQuota, txid>>
        ELSE \* transaction.rollback(); _storage.delete_repo(...)
             UNCHANGED ledgerVars

\* Shell.repo_create: Repository.new(self.user, name, quota) and _create
RepoCreate(u, r, gb) ==
    /\ changes < MaxChanges
    /\ IF TooMany(Cardinality(ReposOf(u)), u)
       THEN \* "Too many repositories"
            UNCHANGED ledgerVars
       ELSE Create(u, r, gb)
    /\ UNCHANGED <<lockVars, sessVars, shellVars, start, sweep, principalVars>>

\* Shell.repo_quota_set on the row fetched by argparse_repo
RepoQuotaSet(r, gb) ==
    /\ repoOwner[r] # NoUser
    /\ changes < MaxChanges
    /\ LET u == repoOwner[r]
           d == PathOf(r)
           new == gb * GB
       IN  IF gb >= 1 /\ QuotaSetter(u, d, ReposOf(u), repoQuota, repoQuota[r], new) = "ok"
           THEN /\ repoQuota' = [repoQuota EXCEPT ![r] = new]
                /\ borgQuota' = IF SetNewQuota(d, new) = "set"
                                THEN [borgQuota EXCEPT ![d] = new] ELSE borgQuota
                /\ changes' = changes + 1
           ELSE UNCHANGED <<repoQuota, borgQuota, changes>>
    /\ UNCHANGED <<shellVars, start, sweep, principalVars, lockVars, sessVars, userQuota, repoOwner, repoDir, isBorg, usage,
                   txid, repoLog>>

\* Shell.repo_del: Repository.delete_instance
RepoDelete(r) ==
    /\ repoOwner[r] # NoUser
    /\ changes < MaxChanges
    /\ LET d == PathOf(r)
       IN  /\ repoDir' = [repoDir EXCEPT ![d] = FALSE]
           /\ isBorg' = [isBorg EXCEPT ![d] = FALSE]
           /\ usage' = [usage EXCEPT ![d] = 0]
           /\ borgQuota' = [borgQuota EXCEPT ![d] = 0]
    /\ repoLog' = Logged(r, "DELETE_REPO")
    /\ repoOwner' = [repoOwner EXCEPT ![r] = NoUser]
    /\ repoQuota' = [repoQuota EXCEPT ![r] = 0]
    /\ txid' = [txid EXCEPT ![r] = 0]
    /\ changes' = changes + 1
    /\ UNCHANGED <<shellVars, start, sweep, principalVars, lockVars, sessVars, userQuota>>

\* The backup engine, serving the repository with "--storage-quota <quota>G",
\* stores or frees data: usage stays within the quota of the serve
EngineStore(r, n) ==
    /\ repoOwner[r] # NoUser
    /\ changes < MaxChanges
    /\ n \in 0..(QuotaGb(r) * GB)
    /\ n # usage[PathOf(r)] \/ ~isBorg[PathOf(r)]
    /\ isBorg' = [isBorg EXCEPT ![PathOf(r)] = TRUE]
    /\ usage' = [usage EXCEPT ![PathOf(r)] = n]
    /\ changes' = changes + 1
    /\ UNCHANGED <<shellVars, start, sweep, principalVars, lockVars, sessVars, userQuota, repoOwner, repoQuota, repoDir,
                   borgQuota, txid, repoLog>>

NextQuota ==
    \E r \in Repos :
        \/ \E u \in Users, gb \in QuotaArgs : RepoCreate(u, r, gb)
        \/ \E gb \in QuotaArgs : RepoQuotaSet(r, gb)
        \/ RepoDelete(r)
        \/ \E n \in 0..((UserQuotaGB + 1) * GB) : EngineStore(r, n)

(***************************************************************************)
(* The quota setter, statement by statement, in concurrent shells          *)
(***************************************************************************)

\* "repo quota <name> <gb>" at the prompt: argparse_repo reads the row, and
\* Shell.repo_quota_set refuses a size below 1 before the setter is called.
\* Of shells that are alike, the command goes to the first.
QuotaBegin(s) ==
    /\ session[s].pc = "loop" /\ Ready(s)
    /\ \A t \in Sess : t < s => session[t] # session[s]
    /\ changes < MaxQuotaChanges
    /\ \E r \in ReposOf(session[s].user), gb \in QuotaArgs :
         IF gb < 1
         THEN /\ reply' = Says("Quota must be 1GB or more")
              /\ Goes(s, session[s])
         ELSE /\ reply' = Says("none")
              /\ Goes(s, [session[s] EXCEPT
                             !.pc = "quota: check",
                             !.cmd = [repo |-> r, old |-> repoQuota[r], new |-> gb * GB]])
    /\ UNCHANGED <<lockVars, ledgerVars, userKey, backupKey, userLog, appendKey, rwKey,
                   authKeys, start, sweep, principalVars>>

\* lines 328-341 of the setter: the sum over the owner's rows as they are now,
\* with self.quota of the instance taken out, and the two size tests; the
\* message of the second reads self.size_gb, which no class defines
QuotaCheck(s) ==
    /\ session[s].pc = "quota: check"
    /\ LET c == session[s].cmd
           u == session[s].user
           combined == SumQuota(ReposOf(u), repoQuota)
           size == NewSize(combined, c.old, c.new)
       IN  IF TooLarge(size, u)
           THEN /\ reply' = SaysSize("Maximum size would be",
                                     (userQuota[u] - (combined - c.old)) \div GB)
                /\ Goes(s, [session[s] EXCEPT !.pc = "loop", !.cmd = NoCommand])
           ELSE IF size < QuotaUsed(PathOf(c.repo))
           THEN /\ reply' = Says("AttributeError")
                /\ End(s, "AttributeError: size_gb", 1)
           ELSE /\ reply' = Says("none")
                /\ Goes(s, [session[s] EXCEPT !.pc = "quota: store"])
    /\ UNCHANGED <<lockVars, ledgerVars, userKey, backupKey, userLog, appendKey, rwKey,
                   authKeys, start, sweep, principalVars>>

\* set_new_quota_safe writes storage_quota after its comparison, not before
ConfigWrittenBeforeTest(d, new, done) ==
    IF done = "keep" THEN borgQuota ELSE [borgQuota EXCEPT ![d] = new]
ConfigWritten(d, new, done) ==
    IF done = "set" THEN [borgQuota EXCEPT ![d] = new] ELSE borgQuota

\* BorgRepo.open_locked: the engine's exclusive lock of an initialised
\* repository is taken while a client of a running borg serve has it open;
\* open_locked then raises StorageError
EngineLockTaken(d) ==
    IF isBorg[d] /\ \E t \in Sess : Running(t) /\ PathOf(session[t].repo) = d
    THEN BOOLEAN ELSE {FALSE}

\* line 342: _storage.set_new_quota(self, new_quota), under the engine's lock
QuotaStore(s) ==
    /\ session[s].pc = "quota: store"
    /\ \E taken \in EngineLockTaken(PathOf(session[s].cmd.repo)) :
         LET c == session[s].cmd
             d == PathOf(c.repo)
             done == SetNewQuota(d, c.new)
         IN  IF taken
             THEN /\ reply' = Says("Failed to create/acquire the lock")
                  /\ Goes(s, [session[s] EXCEPT !.pc = "loop", !.cmd = NoCommand])
                  /\ UNCHANGED borgQuota
             ELSE /\ borgQuota' = ConfigWritten(d, c.new, done)
                  /\ IF done = "error"
                     THEN /\ reply' = SaysSize("Smallest quota would be", usage[d])
                          /\ Goes(s, [session[s] EXCEPT !.pc = "loop", !.cmd = NoCommand])
                     ELSE /\ reply' = Says("none")
                          /\ Goes(s, [session[s] EXCEPT !.pc = "quota: save"])
    /\ UNCHANGED <<lockVars, userQuota, repoOwner, repoQuota, repoDir, isBorg, usage, txid,
                   repoLog, changes, userKey, backupKey, userLog, appendKey, rwKey,
                   authKeys, start, sweep, principalVars>>

\* lines 343-344: self._quota = new_quota; self.save()
QuotaSave(s) ==
    /\ session[s].pc = "quota: save"
    /\ LET c == session[s].cmd
       IN  /\ repoQuota' = [repoQuota EXCEPT ![c.repo] = c.new]
           /\ reply' = SaysSize("Changed repo quota", c.new \div GB)
           /\ Goes(s, [session[s] EXCEPT !.pc = "loop", !.cmd = NoCommand])
    /\ changes' = changes + 1
    /\ UNCHANGED <<lockVars, userQuota, repoOwner, repoDir, isBorg, usage, borgQuota, txid,
                   repoLog, userKey, backupKey, userLog, appendKey, rwKey, authKeys, start, sweep, principalVars>>

NextSetter ==
    \E s \in Sess :
        \/ QuotaBegin(s)
        \/ QuotaCheck(s)
        \/ QuotaStore(s)
        \/ QuotaSave(s)

\* serve sessions and shells that change quotas
NextOverlap ==
    \E s \in Sess :
        \/ Connect(s)
        \/ ResolveUser(s)
        \/ ResolveRepo(s)
        \/ ParseArgs(s)
        \/ ServeBegin(s)
        \/ Spawn(s)
        \/ EngineCommit(s)
        \/ ProcExit(s)
        \/ RunShell(s)
        \/ QuotaBegin(s)
        \/ QuotaCheck(s)
        \/ QuotaStore(s)
        \/ QuotaSave(s)
        \/ ShellExit(s)

(***************************************************************************)
(* main(): privileges, the import of the model, and Commandline._is_remote *)
(***************************************************************************)

\* the user the executable is started as: os.getuid() is 0, the uid of
\* cfg['username'], or another one
Uids == {"root", "borgcube", "other"}

\* os.environ and sys.argv[0], as far as main() and _is_remote read them
Environments ==
    [ssh : BOOLEAN, keyType : KeyTypeEnv, shell : BOOLEAN,
     argv0 : {"borgcube", "other"}, uid : Uids]

\* the exit status of a process that has not ended
NoStatus == -1

\* no invocation of main() is under way
StartOff ==
    [pc |-> "off", env |-> [ssh |-> FALSE, keyType |-> "absent", shell |-> FALSE,
                            argv0 |-> "other", uid |-> "other"],
     queries |-> 0, result |-> "none", printed |-> 0, status |-> NoStatus]

StartInit ==
    \E env \in Environments :
        start = [pc |-> "main", env |-> env, queries |-> 0, result |-> "none",
                 printed |-> 0, status |-> NoStatus]

\* commandline.py line 7: which of SHELL_REMOTE_VARIABLES the environment holds
RemoteVariables(env) ==
    <<env.ssh, env.keyType # "absent">>

\* the loop of _is_remote, lines 22-28
IsRemoteFlag(env) == \E i \in 1..2 : RemoteVariables(env)[i]
IsLocalFlag(env) == \E i \in 1..2 : ~RemoteVariables(env)[i]

\* "is_remote == is_local" of line 29
InconsistentNever(env) == FALSE
Inconsistent(env) == IsRemoteFlag(env) = IsLocalFlag(env)

\* Commandline._is_remote: "remote", "local", or the CommandEnvironmentError
\* whose message is error_str
IsRemote(env) ==
    IF Inconsistent(env) THEN "inconsistent environment"
    ELSE IF ~env.shell THEN "inconsistent environment"
    ELSE IF env.argv0 # "borgcube" THEN "inconsistent environment"
    ELSE IF IsRemoteFlag(env) THEN "remote" ELSE "local"

\* Storage.assert_consistency_for_user: the user directory exists, u has no
\* more repositories than max_repo_count, every repository row of u has its
\* directory and the user directory holds nothing else
ConsistentFor(u) ==
    /\ userDir[u]
    /\ Cardinality(ReposOf(u)) <= maxRepos[u]
    /\ \A r \in Repos : repoDir[<<u, r>>] <=> repoOwner[r] = u

\* Storage.assert_consistency(User.get_all()): the rows of the ledger, one by one
AssertConsistency == \A u \in {x \in Users : userRow[x]} : ConsistentFor(u)

\* drop_privileges(): a process that is neither root nor the service user stops
DropPrivileges ==
    /\ start.pc = "main"
    /\ start' = IF start.env.uid = "other"
                THEN [start EXCEPT !.pc = "done", !.result = "wrong user"]
                ELSE [start EXCEPT !.pc = "drop_privileges"]
    /\ UNCHANGED <<lockVars, ledgerVars, sessVars, shellVars, principalVars, sweep>>

\* "from borgcube.frontend.commandline import Commandline" imports
\* backend.model, whose last statement calls _init(): User.get_all() and, for
\* every user, user.repos are read before main() looks at the environment
Import ==
    /\ start.pc = "drop_privileges"
    /\ start' = IF AssertConsistency
                THEN [start EXCEPT !.pc = "import", !.queries = 1 + Cardinality(Users)]
                ELSE [start EXCEPT !.pc = "done", !.queries = 1 + Cardinality(Users),
                                   !.result = "storage"]
    /\ UNCHANGED <<lockVars, ledgerVars, sessVars, shellVars, principalVars, sweep>>

\* Commandline.__init__: self.is_remote = self._is_remote(env, commandline)
Classify ==
    /\ start.pc = "import"
    /\ start' = IF IsRemote(start.env) \in {"remote", "local"}
                THEN [start EXCEPT !.pc = "_is_remote", !.result = IsRemote(start.env)]
                ELSE [start EXCEPT !.pc = "done", !.result = IsRemote(start.env)]
    /\ UNCHANGED <<lockVars, ledgerVars, sessVars, shellVars, principalVars, sweep>>

\* Commandline.__init__, lines 14-17: the command object is built
Construct ==
    /\ start.pc = "_is_remote"
    /\ start' = [start EXCEPT !.pc = IF start.result = "remote" THEN "RemoteCommand"
                                     ELSE "AdminCommand"]
    /\ UNCHANGED <<lockVars, ledgerVars, sessVars, shellVars, principalVars, sweep>>

\* what cmd.run() ends with: "ok" when the action returned, the name of
\* the error it raised otherwise ("locked": the RemoteCommandError of line
\* 145, made of a DatabaseObjectLockedError; "admin": an AdminCommandError)
CommandOutcomes(command) ==
    IF command = "RemoteCommand"
    THEN {"ok", "db", "locked"} \cup (EnvironmentErrors \ {"inconsistent environment"})
         \cup RemoteCommandErrors \cup Crashes
    ELSE {"ok", "db", "admin"}

\* Commandline.run, line 40: return self.cmd.run()
Run ==
    /\ start.pc \in {"RemoteCommand", "AdminCommand"}
    /\ \E outcome \in CommandOutcomes(start.pc) :
           start' = [start EXCEPT !.pc = "cmd.run", !.result = outcome]
    /\ UNCHANGED <<lockVars, ledgerVars, sessVars, shellVars, principalVars, sweep>>

\* exception.py: the results that are a BorgcubeError (the error of
\* drop_privileges, StorageInconsistencyError, CommandError, DatabaseError)
BorgcubeErrors ==
    {"wrong user", "storage", "db", "locked", "admin"} \cup EnvironmentErrors
    \cup RemoteCommandErrors

\* the exit status of the interpreter: main() returns None after "print(e)"
\* of Commandline.run line 42 or of main line 47 (sys.gettrace() is None in
\* production), and after a run without error; an exception that is no
\* BorgcubeError leaves main() and the interpreter exits with 1
ExitStatus(result) == IF result \in Crashes THEN 1 ELSE 0

\* the lines written by the handlers: one print(e) for a BorgcubeError
Printed(result) == IF result \in BorgcubeErrors THEN 1 ELSE 0

\* main() ends: lines 41-47 and the end of the process
Exit ==
    /\ start.pc \in {"done", "cmd.run"}
    /\ start' = [start EXCEPT !.pc = "exit", !.printed = Printed(start.result),
                              !.status = ExitStatus(start.result)]
    /\ UNCHANGED <<lockVars, ledgerVars, sessVars, shellVars, principalVars, sweep>>

NextStart ==
    \/ DropPrivileges
    \/ Import
    \/ Classify
    \/ Construct
    \/ Run
    \/ Exit

(***************************************************************************)
(* Principals and repositories: creation, deletion, and processes that die *)
(* between the change of the storage tree and the commit of the ledger     *)
(***************************************************************************)

\* shutil.rmtree(user_path): the directory and everything below it
TreeRemoved(tree, u) == [d \in Paths |-> IF d[1] = u THEN FALSE ELSE tree[d]]

\* "borgcube add <name> <email>": User.new and User._create, in a process
\* whose import of the model passed the consistency check
UserAdd(u) ==
    /\ AssertConsistency
    /\ changes < MaxChanges
    /\ ~userRow[u]
    /\ ~userDir[u]
    /\ userDir' = [userDir EXCEPT ![u] = TRUE]
    /\ userRow' = [userRow EXCEPT ![u] = TRUE]
    /\ maxRepos' = [maxRepos EXCEPT ![u] = MaxRepoCount]
    /\ userKey' = [userKey EXCEPT ![u] = 0]
    /\ backupKey' = [backupKey EXCEPT ![u] = 0]
    /\ userLog' = [userLog EXCEPT ![u] = Append(@, "CREATE_USER")]
    /\ changes' = changes + 1
    /\ UNCHANGED <<lockVars, userQuota, repoOwner, repoQuota, repoDir, isBorg, usage,
                   borgQuota, txid, repoLog, sessVars, appendKey, rwKey, authKeys, reply,
                   start, sweep>>

\* the process of "borgcube add" dies after _storage.create_user, before the
\* transaction of User.new commits
CrashInUserAdd(u) ==
    /\ AssertConsistency
    /\ changes < MaxChanges
    /\ ~userRow[u]
    /\ ~userDir[u]
    /\ userDir' = [userDir EXCEPT ![u] = TRUE]
    /\ changes' = changes + 1
    /\ UNCHANGED <<lockVars, userQuota, repoOwner, repoQuota, repoDir, isBorg, usage,
                   borgQuota, txid, repoLog, sessVars, shellVars, start, sweep, userRow, maxRepos>>

\* "borgcube delete <name> CONFIRM": User.delete_instance removes the directory
\* tree, writes the log entry and deletes the User row; delete_instance is
\* called without recursive=True, and the rows of other tables stay
UserDelete(u) ==
    /\ AssertConsistency
    /\ changes < MaxChanges
    /\ userRow[u]
    /\ userDir' = [userDir EXCEPT ![u] = FALSE]
    /\ repoDir' = TreeRemoved(repoDir, u)
    /\ isBorg' = TreeRemoved(isBorg, u)
    /\ userRow' = [userRow EXCEPT ![u] = FALSE]
    /\ UNCHANGED maxRepos
    /\ userLog' = [userLog EXCEPT ![u] = Append(@, "DELETE_USER")]
    /\ changes' = changes + 1
    /\ UNCHANGED <<lockVars, userQuota, repoOwner, repoQuota, usage, borgQuota, txid,
                   repoLog, sessVars, userKey, backupKey, appendKey, rwKey, authKeys,
                   reply, start, sweep>>

\* the process of "borgcube delete" dies after _storage.delete_user, before the
\* transaction of delete_instance commits
CrashInUserDelete(u) ==
    /\ AssertConsistency
    /\ changes < MaxChanges
    /\ userRow[u]
    /\ userDir' = [userDir EXCEPT ![u] = FALSE]
    /\ repoDir' = TreeRemoved(repoDir, u)
    /\ isBorg' = TreeRemoved(isBorg, u)
    /\ changes' = changes + 1
    /\ UNCHANGED <<lockVars, userQuota, repoOwner, repoQuota, usage, borgQuota, txid,
                   repoLog, sessVars, shellVars, start, sweep, userRow, maxRepos>>

\* "borgcube quota <name> <quota>": the quota_gb setter assigns, save() writes
UserQuotaSet(u, gb) ==
    /\ AssertConsistency
    /\ changes < MaxChanges
    /\ userRow[u]
    /\ userQuota' = [userQuota EXCEPT ![u] = gb * GB]
    /\ changes' = changes + 1
    /\ UNCHANGED <<lockVars, repoOwner, repoQuota, repoDir, isBorg, usage, borgQuota, txid,
                   repoLog, sessVars, shellVars, start, sweep, principalVars>>

\* the principals that can have a shell: their row and their directory exist
Principals == {u \in Users : userRow[u] /\ userDir[u]}

\* the repositories a shell can address: get_by_name finds the row, and rmtree
\* finds the directory
Deletable == {r \in Repos : repoOwner[r] \in Principals /\ repoDir[PathOf(r)]}

\* "repo create" and "repo del" in the shell of a principal
ShellRepoCreate(u, r, gb) == u \in Principals /\ RepoCreate(u, r, gb)
ShellRepoDelete(r) == r \in Deletable /\ RepoDelete(r)

\* the shell dies in Repository._create after _storage.create_repo, before the
\* transaction of Repository.new commits
CrashInRepoCreate(u, r) ==
    /\ u \in Principals
    /\ changes < MaxChanges
    /\ ~TooMany(Cardinality(ReposOf(u)), u)
    /\ ~repoDir[<<u, r>>]
    /\ repoDir' = [repoDir EXCEPT ![<<u, r>>] = TRUE]
    /\ changes' = changes + 1
    /\ UNCHANGED <<lockVars, userQuota, repoOwner, repoQuota, isBorg, usage, borgQuota,
                   txid, repoLog, sessVars, shellVars, start, sweep, principalVars>>

\* the shell dies in Repository.delete_instance after _storage.delete_repo,
\* before the transaction commits
CrashInRepoDelete(r) ==
    /\ r \in Deletable
    /\ changes < MaxChanges
    /\ repoDir' = [repoDir EXCEPT ![PathOf(r)] = FALSE]
    /\ isBorg' = [isBorg EXCEPT ![PathOf(r)] = FALSE]
    /\ changes' = changes + 1
    /\ UNCHANGED <<lockVars, userQuota, repoOwner, repoQuota, usage, borgQuota, txid,
                   repoLog, sessVars, shellVars, start, sweep, principalVars>>

NextAdmin ==
    \/ \E u \in Users :
        \/ UserAdd(u)
        \/ CrashInUserAdd(u)
        \/ UserDelete(u)
        \/ CrashInUserDelete(u)
        \/ \E gb \in QuotaArgs : UserQuotaSet(u, gb)
    \/ \E u \in Users, r \in Repos :
        \/ \E gb \in QuotaArgs : ShellRepoCreate(u, r, gb)
        \/ CrashInRepoCreate(u, r)
    \/ \E r \in Repos :
        \/ ShellRepoDelete(r)
        \/ CrashInRepoDelete(r)

(***************************************************************************)
(* Repository.new in concurrent shells: the count is read and the row is   *)
(* inserted in one deferred transaction of SQLite                          *)
(***************************************************************************)

\* the rows written to the RepoLog table so far: every transaction that
\* creates or deletes a repository commits one
Commits == SumQuota(Repos, [r \in Repos |-> Len(repoLog[r])])

\* session s is inside the transaction of Repository.new and has read the count
InNew(s) == session[s].pc = "new: create"

\* Repository.new, lines 271-274: the transaction begins, the count is read
\* and compared with max_repo_count
NewBegin(s) ==
    /\ session[s].pc = "loop" /\ Ready(s)
    /\ \A t \in Sess : t < s => session[t] # session[s]
    /\ changes < MaxChanges
    /\ \E r \in Repos :
         IF TooMany(Cardinality(ReposOf(session[s].user)), session[s].user)
         THEN /\ reply' = Says("Too many repositories")
              /\ Goes(s, session[s])
         ELSE /\ reply' = Says("none")
              /\ Goes(s, [session[s] EXCEPT !.pc = "new: create",
                             !.cmd = [repo |-> r, old |-> Commits, new |-> 0]])
    /\ UNCHANGED <<lockVars, ledgerVars, userKey, backupKey, userLog, appendKey, rwKey,
                   authKeys, start, sweep, principalVars>>

\* Repository.new, line 275: _create. The INSERT of a transaction whose read
\* is older than the last commit fails with "database is locked"; the COMMIT
\* waits for the transactions that have read, and fails when they stay. The
\* OperationalError is no DatabaseError: it ends the shell, and the directory
\* that _create has made stays
NewCreate(s) ==
    /\ InNew(s)
    /\ LET u == session[s].user
           r == session[s].cmd.repo
           d == <<u, r>>
           others == \E t \in Sess \ {s} : InNew(t)
       IN  \E busy \in IF Commits # session[s].cmd.old THEN {TRUE}
                         ELSE IF others THEN BOOLEAN ELSE {FALSE} :
             IF busy
             THEN /\ End(s, "OperationalError", 1)
                  /\ reply' = Says("OperationalError")
                  /\ repoDir' = [repoDir EXCEPT ![d] = TRUE]
                  /\ changes' = changes + 1
                  /\ UNCHANGED <<userQuota, repoOwner, repoQuota, isBorg, usage,
                                 borgQuota, txid, repoLog>>
             ELSE /\ Goes(s, [session[s] EXCEPT !.pc = "loop", !.cmd = NoCommand])
                  /\ reply' = Says("done")
                  /\ Create(u, r, 1)
    /\ UNCHANGED <<lockVars, userKey, backupKey, userLog, appendKey, rwKey, authKeys,
                   start, sweep, principalVars>>

\* "repo create" and "repo del" in concurrent shells of one principal
NextLimit ==
    \/ \E s \in Sess : NewBegin(s)
    \/ \E s \in Sess : NewCreate(s)
    \/ \E r \in Repos : ShellRepoDelete(r)

(***************************************************************************)
(* NotificationDispatcher.dispatch_too_old_backups_notifications           *)
(***************************************************************************)

\* datetime values, in days; the run is made at MaxTime
Dates == 0..MaxTime

\* the operations of the RepoLog rows the run can meet
SweepOperations == {"SERVE_MODIFY_SUCCESS", "SERVE_REPO_SUCCESS"}

\* a RepoLog row: operation and date
Entries == [op : SweepOperations, date : Dates]
\* "return None"
NoEntry == [op |-> "none", date |-> 0]

\* the RepoLog rows of a repository, in the order of their insertion, up to n
\* of them: each row got the date of its insertion
RECURSIVE Histories(_, _)
Histories(from, n) ==
    IF n = 0 THEN {<<>>}
    ELSE {<<>>} \cup
         UNION {{<<e>> \o h : h \in Histories(e.date, n - 1)} :
                    e \in {x \in Entries : x.date >= from}}

\* no run of the dispatcher
SweepOff ==
    [pc |-> "off", days |-> 0, now |-> 0, created |-> <<>>, entries |-> <<>>,
     todo |-> <<>>, found |-> <<>>, sent |-> {}, attempts |-> {}]

RECURSIVE InOrder(_)
\* User.get_all(): the rows in the order of their ids
InOrder(rows) ==
    IF rows = {} THEN <<>>
    ELSE LET u == CHOOSE x \in rows : \A y \in rows : x <= y
         IN  <<u>> \o InOrder(rows \ {u})

\* "borgcube cron" starts: num_days is the default or the caller's, one
\* repository has any history, each of the others was created just now or
\* long ago and has no entry
SweepInit ==
    \E days \in 1..MaxDays, r0 \in Repos, old \in SUBSET Repos, c \in Dates :
      \E h \in Histories(c, MaxEntries) :
        sweep = [pc |-> "loop", days |-> days, now |-> MaxTime,
                 created |-> [r \in Repos |-> IF r = r0 THEN c
                                              ELSE IF r \in old THEN 0 ELSE MaxTime],
                 entries |-> [r \in Repos |-> IF r = r0 THEN h ELSE <<>>],
                 todo |-> InOrder({u \in Users : userRow[u]}),
                 found |-> [u \in Users |-> {}], sent |-> {}, attempts |-> {}]

\* RepoLog.get_logs_for_repo_with_operation
LogsWithOperation(log, op) == SelectSeq(log, LAMBDA e : e.op = op)

\* RepoLog.get_last_entry_for_repo_with_operation: logs[-1], or None
FirstEntryWithOperation(log, op) ==
    LET logs == LogsWithOperation(log, op)
    IN  IF Len(logs) > 0 THEN logs[1] ELSE NoEntry
LastEntryWithOperation(log, op) ==
    LET logs == LogsWithOperation(log, op)
    IN  IF Len(logs) > 0 THEN logs[Len(logs)] ELSE NoEntry

\* "check_date = now - timedelta(days=num_days)"
CheckDate == sweep.now - sweep.days

\* lines 74-82: too_old for one repository
TooOld(r) ==
    LET log == LastEntryWithOperation(sweep.entries[r], "SERVE_MODIFY_SUCCESS")
    IN  /\ sweep.created[r] < CheckDate
        /\ (log = NoEntry \/ log.date < CheckDate)

\* what /usr/sbin/sendmail returns
SendmailCodes == {0, 1}

\* one pass of "for user in users": the repositories found too old, and for a
\* user that has any, EmailNotification._send_mail, which raises
\* NotificationSendmailError when sendmail returns another code than 0; nothing
\* between _send_mail and "borgcube cron" catches it
Dispatch ==
    /\ sweep.pc = "loop"
    /\ IF sweep.todo = <<>>
       THEN sweep' = [sweep EXCEPT !.pc = "done"]
       ELSE LET u == Head(sweep.todo)
                tooOld == {r \in ReposOf(u) : TooOld(r)}
                went == [sweep EXCEPT !.todo = Tail(@), !.found[u] = tooOld]
            IN  IF tooOld = {}
                THEN sweep' = went
                ELSE \E returncode \in SendmailCodes :
                       sweep' = IF returncode # 0
                                THEN [went EXCEPT !.pc = "NotificationSendmailError",
                                                  !.attempts = @ \cup {u}]
                                ELSE [went EXCEPT !.attempts = @ \cup {u},
                                                  !.sent = @ \cup {u}]
    /\ UNCHANGED <<lockVars, ledgerVars, sessVars, shellVars, start, principalVars>>

NextSweep == Dispatch

(***************************************************************************)
(* Specifications                                                          *)
(***************************************************************************)

\* every principal has its row and its directory
PrincipalInit ==
    /\ userRow = [u \in Users |-> TRUE]
    /\ userDir = [u \in Users |-> TRUE]
    /\ maxRepos = [u \in Users |-> MaxRepoCount]

\* the ledger's User rows: every principal has a login key and no pending one
ShellInit ==
    /\ userKey = [u \in Users |-> 1]
    /\ backupKey = [u \in Users |-> 0]
    /\ userLog = [u \in Users |-> <<"CREATE_USER">>]
    /\ appendKey = [r \in Repos |-> 0]
    /\ rwKey = [r \in Repos |-> 0]
    /\ authKeys = AuthorizedKeysFile(userKey, backupKey, appendKey, rwKey)
    /\ reply = Says("none")

\* principal 1 has set a new key (2) with "user key set" and has not logged in
\* with it yet: the key it replaced (1) is kept as the pending backup key
ShellWithPendingKey ==
    /\ userKey = [u \in Users |-> IF u = 1 THEN 2 ELSE 1]
    /\ backupKey = [u \in Users |-> IF u = 1 THEN 1 ELSE 0]
    /\ userLog = [u \in Users |-> <<"CREATE_USER">>]
    /\ appendKey = [r \in Repos |-> 0]
    /\ rwKey = [r \in Repos |-> 0]
    /\ authKeys = AuthorizedKeysFile(userKey, backupKey, appendKey, rwKey)
    /\ reply = Says("none")

InitLock ==
    LockInit /\ LedgerInit /\ SessionInit /\ ShellInit
    /\ start = StartOff /\ PrincipalInit /\ sweep = SweepOff
SpecLock == InitLock /\ [][NextLock]_vars

InitQuota ==
    LockInit /\ LedgerInit /\ SessionInit /\ ShellInit
    /\ start = StartOff /\ PrincipalInit /\ sweep = SweepOff
SpecQuota == InitQuota /\ [][NextQuota]_vars

InitServe ==
    LockInit /\ LedgerWithRepos /\ SessionInit /\ ShellWithPendingKey
    /\ start = StartOff /\ PrincipalInit /\ sweep = SweepOff
SpecServe == InitServe /\ [][NextServe]_vars

InitKeys ==
    LockInit /\ LedgerWithRepos /\ SessionInit /\ ShellWithPendingKey
    /\ start = StartOff /\ PrincipalInit /\ sweep = SweepOff
SpecKeys == InitKeys /\ [][NextKeys]_vars

\* a ledger in which principal 1 owns repository 1 and one principal owns the
\* others, each created with a quota of 1 GB; repository 1 may have been given
\* 2 GB since, and a serve session may have stored data in it
LedgerOfOwners ==
    \E other \in Users, gb \in 1..2 :
      \E stored \in 0..(gb * GB) :
       LET owner == [r \in Repos |-> IF r = 1 THEN 1 ELSE other]
       IN
        /\ TRUE
        /\ userQuota = [u \in Users |-> UserQuotaGB * GB]
        /\ repoOwner = owner
        /\ repoQuota = [r \in Repos |-> IF r = 1 THEN gb * GB ELSE GB]
        /\ repoDir = [d \in Paths |-> d[1] = owner[d[2]]]
        /\ isBorg = [d \in Paths |-> d = <<1, 1>> /\ stored > 0]
        /\ usage = [d \in Paths |-> IF d = <<1, 1>> THEN stored ELSE 0]
        /\ borgQuota = [d \in Paths |-> 0]
        /\ txid = [r \in Repos |-> 0]
        /\ repoLog = [r \in Repos |-> <<"CREATE_REPO">>]
        /\ changes = 0

\* a shell of principal 1 at the prompt
AtPrompt == [Fresh EXCEPT !.pc = "loop", !.keyType = USER, !.user = 1, !.urow = UserRow(1)]

\* principal 1 has logged in once; no other connection has been made
OneShell ==
    /\ session = [s \in Sess |-> IF s = 1 THEN AtPrompt ELSE Fresh]
    /\ ended = NotEnded

\* principal 1 has logged in from every connection
SessionsAtPrompt ==
    /\ session = [s \in Sess |-> AtPrompt]
    /\ ended = NotEnded

\* "borgcube regen" and one shell at the prompt
InitRegen ==
    LockInit /\ LedgerWithRepos /\ ShellInit /\ OneShell
    /\ start = StartOff /\ PrincipalInit /\ sweep = SweepOff
SpecRegen == InitRegen /\ [][NextRegen]_vars

\* concurrent shells of principal 1, whose row allows RepoLimit repositories
InitLimit ==
    /\ LockInit /\ LedgerInit /\ ShellInit /\ SessionsAtPrompt
    /\ start = StartOff /\ sweep = SweepOff
    /\ userRow = [u \in Users |-> TRUE]
    /\ userDir = [u \in Users |-> TRUE]
    /\ maxRepos = [u \in Users |-> RepoLimit]
SpecLimit == InitLimit /\ [][NextLimit]_vars

InitOverlap == InitServe
SpecOverlap == InitOverlap /\ [][NextOverlap]_vars

\* the setter in one shell
InitSetter ==
    LockInit /\ LedgerOfOwners /\ ShellInit /\ OneShell
    /\ start = StartOff /\ PrincipalInit /\ sweep = SweepOff
SpecSetter == InitSetter /\ [][NextSetter]_vars

\* the setter in concurrent shells of one principal
InitRace ==
    LockInit /\ LedgerOfOwners /\ ShellInit /\ SessionsAtPrompt
    /\ start = StartOff /\ PrincipalInit /\ sweep = SweepOff
SpecRace == InitRace /\ [][NextSetter]_vars

InitAdmin == InitQuota
SpecAdmin == InitAdmin /\ [][NextAdmin]_vars

InitSweep ==
    LockInit /\ LedgerWithRepos /\ SessionInit /\ ShellInit /\ start = StartOff
    /\ PrincipalInit /\ SweepInit
SpecSweep == InitSweep /\ [][NextSweep]_vars

InitStart ==
    LockInit /\ LedgerWithRepos /\ SessionInit /\ ShellInit /\ StartInit /\ PrincipalInit
    /\ sweep = SweepOff
SpecStart == InitStart /\ [][NextStart]_vars

(***************************************************************************)
(* Properties of LockableObject.lock, checked under SpecLock.              *)
(***************************************************************************)

\* process p takes a step of its own in lock() (no other action changes these)
Moved(p) == pc'[p] # pc[p] \/ slept'[p] # slept[p] \/ guards'[p] # guards[p]

\* C1: at any time at most one live process is inside the guarded section of
\* the entity's lock (recursion happens inside one process and is one holder).
C1_MutualExclusion ==
    \A p, q \in Procs :
        (p # q /\ alive[p] /\ alive[q]) => ~(InSection(p) /\ InSection(q))

C7_ReleaseObserved ==
    \A p \in Procs : pc[p] = "failed" => wait[p] # "released"

C9_RecursiveStep ==
    \A p \in Procs :
        /\ (pc[p] = "loop" /\ alive'[p] /\ Moved(p) /\ InSection(p) /\ mem[p] = p)
           => (pc'[p] = "atomic" /\ rec'[p] /\ slept'[p] = 0)
        /\ (pc[p] = "atomic" /\ alive'[p] /\ Moved(p) /\ rec[p])
           => (guards'[p] = Append(guards[p], TRUE) /\ locked' = p /\ mem'[p] = p)
        /\ (/\ alive'[p] /\ InSection(p) /\ Len(guards'[p]) < Len(guards[p])
            /\ guards[p][Len(guards[p])])
           => (locked' = locked /\ mem[p] = p /\ mem'[p] = p /\ InSection(p)')
        /\ (/\ alive'[p] /\ Len(guards[p]) = 1 /\ Len(guards'[p]) = 0 /\ mem[p] = p)
           => (locked' = 0 /\ mem'[p] = 0)

C10_OutermostExitFrees ==
    [][\A p \in Procs :
        (alive'[p] /\ Len(guards[p]) = 1 /\ Len(guards'[p]) = 0)
        => (locked' = 0 /\ lastExit'[p] \in {"return", "error"})
      ]_vars

\* C10 witness: a process left its outermost guard through an error and the
\* row is free.
C10_Witness ==
    \E p \in Procs :
        /\ lastExit[p] = "error" /\ pc[p] = "idle" /\ ~InSection(p)
        /\ mem[p] = 0 /\ locked = 0

\* C36: while a process is inside a guarded section of lock(), the row's
\* locked column holds the id of that process, also when the holder it found
\* in the row was a process that no longer exists.
C36_HolderIsOccupant ==
    \A p \in Procs : (alive[p] /\ InSection(p)) => locked = p

(***************************************************************************)
(* Properties of the serve path, checked under SpecServe.                  *)
(***************************************************************************)

\* C2: the borg serve subprocesses of two sessions on the same repository
\* never run at the same time (the second session waits for the repository
\* lock and gives up with "repository busy" without spawning).
C2_ServeExclusive ==
    \A s, t \in Sess :
        (/\ s # t /\ Running(s) /\ Running(t)
         /\ session[s].keyType \in {REPO_APPEND, REPO_RW}
         /\ session[t].keyType \in {REPO_APPEND, REPO_RW})
        => session[s].repo # session[t].repo

\* C3: a session writes the serve-begin entry and spawns borg serve only when
\* its key type is REPO_APPEND or REPO_RW.
C3_ServeOnlyRepoKeys ==
    \A s \in Sess :
        session[s].pc \in {"begun", "running"}
        => session[s].keyType \in {REPO_APPEND, REPO_RW}

\* C11: the serve handler is reached, and borg serve spawned, only by a
\* session whose SSH_ORIGINAL_COMMAND is the serve invocation "borg serve";
\* every other original command is rejected with no subprocess.
C11_OnlyServeSpawns ==
    \A s \in Sess :
        session[s].pc \in {"_run_borg_command", "begun"}
        => session[s].orig = <<"borg", "serve">>

\* the session has left __init__ and is in its handler (shell or serve)
InAction(s) ==
    session[s].pc \in {"_run_shell", "loop", "_run_borg_command", "begun", "running"}

\* C12: a session that is in its handler with a repository bound is bound to
\* a repository owned by the principal it resolved; a repository of another
\* principal never gets past _parse_env.
C12_BoundRepoIsOwned ==
    \A s \in Sess :
        (InAction(s) /\ session[s].repo # NoRepo)
        => repoOwner[session[s].repo] = session[s].user

\* C12 witness: a session naming another principal's repository was rejected
\* as inconsistent while a session bound to its own repository is being served.
C12_Witness ==
    /\ ended.result = "inconsistent repo and user"
    /\ \E s \in Sess :
          /\ Running(s)
          /\ repoOwner[session[s].repo] = session[s].user

\* session s has asked for the shell and takes the step of _run_shell
ShellStep(s) == session[s].pc = "_run_shell" /\ session'[s].pc # "_run_shell"

\* C13: only a session whose key type is USER or USER_BACKUP is ever at the
\* shell's prompt; the shell request of a session with a REPO_APPEND or
\* REPO_RW key ends with the RemoteCommandError of _run_shell, and no User row
\* is touched.
C13_ShellOnlyUserKeys ==
    /\ [](\A s \in Sess :
            session[s].pc = "loop" => session[s].keyType \in {USER, USER_BACKUP})
    /\ [][\A s \in Sess :
            (ShellStep(s) /\ session[s].keyType \in {REPO_APPEND, REPO_RW})
            => /\ session'[s].pc = "done"
               /\ ErrorClass(ended'.result) = "RemoteCommandError"
               /\ UNCHANGED shellVars
         ]_vars

\* C13 witness: a shell request under a repository key has just been refused
\* while a session with a user key is at the shell's prompt.
C13_Witness ==
    /\ ended.result = "repository key for shell"
    /\ \E s \in Sess : session[s].pc = "loop" /\ session[s].keyType = USER

\* the words of a command line
Words(argv) == {argv[i] : i \in 1..Len(argv)}

\* C14: the command line built for borg serve holds --append-only exactly
\* when the session's key type is REPO_APPEND.
C14_AppendOnlyIffRepoAppend ==
    \A s \in Sess :
        session[s].pc \in {"begun", "running"}
        => ("--append-only" \in Words(session[s].argv)
            <=> session[s].keyType = REPO_APPEND)

\* C14 witness: a REPO_APPEND session runs borg serve with the flag next to a
\* REPO_RW session that runs it without.
C14_Witness ==
    \E s, t \in Sess :
        /\ Running(s) /\ session[s].keyType = REPO_APPEND
        /\ "--append-only" \in Words(session[s].argv)
        /\ Running(t) /\ session[t].keyType = REPO_RW
        /\ "--append-only" \notin Words(session[t].argv)

(***************************************************************************)
(* Properties of the start of main(), checked under SpecStart.             *)
(***************************************************************************)

\* C15: _is_remote answers "remote" only for an environment that holds both
\* SSH_CONNECTION and BORGCUBE_KEY_TYPE, "local" only for one that holds
\* neither, and raises the environment error for every environment that holds
\* exactly one of them.
C15_Classification ==
    LET env == start.env
        both == env.ssh /\ env.keyType # "absent"
        neither == ~env.ssh /\ env.keyType = "absent"
    IN  /\ start.result = "remote" => both
        /\ start.result = "local" => neither
        /\ (~both /\ ~neither)
           => /\ start.pc \notin {"_is_remote", "RemoteCommand", "AdminCommand"}
              /\ (start.pc = "done" /\ start.result \notin {"wrong user", "storage"})
                 => start.result = "inconsistent environment"

\* C15 witness: an invocation whose environment holds SSH_CONNECTION but no
\* BORGCUBE_KEY_TYPE, and is in order otherwise, ended with the environment
\* error.
C15_Witness ==
    /\ start.pc = "done" /\ start.result = "inconsistent environment"
    /\ start.env.ssh /\ start.env.keyType = "absent"
    /\ start.env.shell /\ start.env.argv0 = "borgcube"

\* C16: an invocation for an SSH connection whose environment lacks
\* BORGCUBE_KEY_TYPE ends with the error that names BORGCUBE_KEY_TYPE, and
\* has not queried the ledger.
C16_MissingKeyTypeNamed ==
    (/\ start.pc = "done"
     /\ start.env.ssh /\ start.env.keyType = "absent"
     /\ start.env.uid # "other")
    => /\ start.result = "missing BORGCUBE_KEY_TYPE"
       /\ start.queries = 0

C33_AdminQuotaKeepsSum ==
    \A u \in Principals : SumQuota(ReposOf(u), repoQuota) <= userQuota[u]

\* C34: the borg serve subprocess of a session runs with the storage path of
\* the repository it serves as its working directory.
C34_CwdIsRepositoryPath ==
    \A s \in Sess : Running(s) => session[s].cwd = PathOf(session[s].repo)

\* C35: a principal never owns more repositories than max_repo_count, however
\* the creations and deletions of its shells interleave, and a creation that
\* finds the count at the maximum makes no row and no directory.
C35_CountWithinLimit ==
    /\ [](\A u \in Users : Cardinality(ReposOf(u)) <= maxRepos[u])
    /\ [][\A s \in Sess :
            (NewBegin(s) /\ Cardinality(ReposOf(session[s].user)) >= maxRepos[session[s].user])
            => UNCHANGED <<repoOwner, repoDir, repoLog>>]_vars

\* C35 witness: a shell was told "Too many repositories" while the principal
\* owned as many repositories as its row allows, after another shell's
\* creation had failed on the busy ledger.
C35_Witness ==
    /\ reply.text = "Too many repositories"
    /\ Cardinality(ReposOf(1)) = maxRepos[1]
    /\ \E s \in Sess : session[s].pc = "done"

\* C37: a "repo create" that adds no row to the ledger leaves the storage
\* tree and the log as they were, so that a consistent ledger stays consistent.
C37_RejectionLeavesNoTrace ==
    [][\A u \in Users, r \in Repos, gb \in QuotaArgs :
          (ShellRepoCreate(u, r, gb) /\ repoOwner' = repoOwner)
          => /\ UNCHANGED <<repoDir, repoLog>>
             /\ AssertConsistency => AssertConsistency']_vars

\* C38: under SpecRegen principal 1 has logged in with key 1 and makes no
\* other login; whatever "user key set" commands its shell runs, key 1 stays
\* in the ledger as the current or as the pending key of principal 1.
C38_ConfirmedKeyKept ==
    userKey[1] = 1 \/ backupKey[1] = 1

\* C39: no repository has the same key as append key and as read/write key,
\* and a "repo keys set" that is refused because the two would be the
\* same leaves both keys of the ledger as they were.
C39_RepoKeysDiffer ==
    /\ [](\A r \in Repos : appendKey[r] # 0 => appendKey[r] # rwKey[r])
    /\ [][reply'.text = "Can't set key to same value" => UNCHANGED <<appendKey, rwKey>>]_vars

\* C39 witness: the shell was refused the read/write key of a repository
\* because the repository has it as append key.
C39_Witness ==
    /\ reply.text = "Can't set key to same value"
    /\ \E r \in Repos : appendKey[r] # 0 /\ rwKey[r] = 0

\* C40: every entry of the repository log belongs to a repository whose row
\* and whose principal's row are in the ledger, and every entry of the
\* principal log belongs to a principal whose row is in the ledger.
C40_LogEntriesHaveRows ==
    /\ \A r \in Repos : repoLog[r] # <<>>
                          => (repoOwner[r] # NoUser /\ userRow[repoOwner[r]])
    /\ \A u \in Users : userLog[u] # <<>> => userRow[u]

\* C31: an invocation that ended with a recoverable error printed a single
\* message and has a non-zero exit status, and an exit status of zero means
\* that the requested action succeeded.
C31_ErrorExitsNonZero ==
    start.pc = "exit"
    => /\ start.result \in BorgcubeErrors
          => (start.printed = 1 /\ start.status # 0)
       /\ start.status = 0 => start.result = "ok"

(***************************************************************************)
(* Properties of the outcome of a session, checked under SpecServe.        *)
(***************************************************************************)

\* C17: a session in which int() or AuthorizedKeyType() raised ValueError (a
\* BORGCUBE_KEY_TYPE, BORGCUBE_USER or BORGCUBE_REPO that is no integer, or no
\* known key type) ends with a CommandEnvironmentError.
C17_MalformedIsEnvironmentError ==
    ended.raised = "ValueError"
    => ErrorClass(ended.result) = "CommandEnvironmentError"

\* session s takes the step in which proc.wait() returns and it ends
ExitStep(s) == Running(s) /\ session'[s].pc = "done"

\* the RepoLog entries of repository r written by the step
Written(r) == SubSeq(repoLog'[r], Len(repoLog[r]) + 1, Len(repoLog'[r]))

\* C18: when a serve invocation ends, SERVE_MODIFY_SUCCESS (exit code 0) or
\* SERVE_MODIFY_ABORT (any other exit code) is written exactly when the
\* transaction counter after the run is greater than the counter before it,
\* also when the counter before it was 0 (no transaction yet).
C18_ModifyIffAdvanced ==
    [][\A s \in Sess :
        ExitStep(s)
        => LET r == session[s].repo
               modify == IF ended'.rc = 0 THEN "SERVE_MODIFY_SUCCESS"
                                          ELSE "SERVE_MODIFY_ABORT"
           IN  /\ modify \in Words(Written(r))
                  <=> TransactionId(r) > session[s].txBefore
               /\ {"SERVE_MODIFY_SUCCESS", "SERVE_MODIFY_ABORT"} \cap Words(Written(r))
                  \subseteq {modify}
      ]_vars

\* how many of the first k entries of a log are among ops
Count(log, k, ops) == Cardinality({i \in 1..k : log[i] \in ops})

\* the sessions between their serve-begin entry and the end of borg serve
Serving(r) == {s \in Sess : session[s].pc \in {"begun", "running"} /\ session[s].repo = r}

\* C19: borg serve is spawned only after the session's SERVE_REPO_BEGIN entry
\* is in the log; when the subprocess exits the session writes exactly one of
\* SERVE_REPO_SUCCESS (exit code 0) and SERVE_REPO_ABORT (any other), so every
\* begin entry is matched by one session still serving or by one such entry,
\* and no success or abort entry comes before its begin entry.
C19_BeginThenOneOutcome ==
    /\ [](\A r \in Repos :
            LET log == repoLog[r]
                outcomes == {"SERVE_REPO_SUCCESS", "SERVE_REPO_ABORT"}
            IN  /\ Count(log, Len(log), {"SERVE_REPO_BEGIN"})
                   = Cardinality(Serving(r)) + Count(log, Len(log), outcomes)
                /\ \A k \in 1..Len(log) :
                      Count(log, k, outcomes) <= Count(log, k, {"SERVE_REPO_BEGIN"}))
    /\ [][\A s \in Sess :
            LET r == session[s].repo
            IN  /\ (session[s].pc # "running" /\ session'[s].pc = "running")
                   => /\ session[s].pc = "begun"
                      /\ repoLog' = repoLog
                /\ ExitStep(s)
                   => /\ Written(r)[1] = (IF ended'.rc = 0 THEN "SERVE_REPO_SUCCESS"
                                                            ELSE "SERVE_REPO_ABORT")
                      /\ Count(Written(r), Len(Written(r)),
                               {"SERVE_REPO_SUCCESS", "SERVE_REPO_ABORT"}) = 1
         ]_vars

\* C19 witness: a serve session on a repository has just ended with a non-zero
\* exit code after one that ended with 0, and the log holds begin, success,
\* begin, abort in that order.
C19_Witness ==
    /\ ended.result = "ok" /\ ended.rc # 0
    /\ \E r \in Repos :
          /\ Serving(r) = {}
          /\ repoLog[r] = <<"CREATE_REPO", "SERVE_REPO_BEGIN", "SERVE_REPO_SUCCESS",
                            "SERVE_REPO_BEGIN", "SERVE_REPO_ABORT">>

\* C20: when a session with a USER key starts the shell while the ledger
\* holds a pending backup key for its principal, the step clears the pending
\* key in the ledger and writes a log entry.
C20_AcceptanceLogged ==
    [][\A s \in Sess :
        LET u == session[s].user
        IN  (/\ ShellStep(s) /\ session[s].keyType = USER
             /\ backupKey[u] # 0)
            => /\ backupKey'[u] = 0
               /\ userLog' # userLog \/ repoLog' # repoLog
      ]_vars

\* C21: a session with a USER_BACKUP key that starts the shell is admitted to
\* the prompt, and the step leaves the login key and the pending backup key of
\* its principal in the ledger as they were.
C21_BackupLoginKeepsKeys ==
    [][\A s \in Sess :
        LET u == session[s].user
        IN  (ShellStep(s) /\ session[s].keyType = USER_BACKUP)
            => /\ session'[s].pc = "loop"
               /\ userKey'[u] = userKey[u]
               /\ backupKey'[u] = backupKey[u]
      ]_vars

\* a step in which a key column of a User row or of a Repository row changes
KeyChanged ==
    userKey' # userKey \/ backupKey' # backupKey \/ appendKey' # appendKey \/ rwKey' # rwKey

\* C22: once an operation that changed a key of the ledger has finished, the
\* authorized_keys file holds exactly one entry per key the ledger holds: the
\* entries of the principals' login and pending keys and of the repositories'
\* append and read/write keys, and no entry of a key no longer recorded.
C22_FileFollowsLedger ==
    [][KeyChanged => authKeys' = AuthorizedKeysFile(userKey', backupKey', appendKey', rwKey')]_vars

\* session s is in the quota setter
InSetter(s) == session[s].pc \in {"quota: check", "quota: store", "quota: save"}

\* the setter of session s ends in this step without having saved the new
\* quota: it raised DatabaseError, or the AttributeError of the missing size_gb
Rejects(s) == session[s].pc \in {"quota: check", "quota: store"} /\ ~InSetter(s)'

\* C23: a step in which the quota setter rejects the request leaves the quota
\* of every repository row (the one addressed and its siblings) and the
\* storage quota in the configuration of every engine repository as they were.
C23_RejectionChangesNothing ==
    [][\A s \in Sess : Rejects(s) => UNCHANGED <<repoQuota, borgQuota>>]_vars

\* the engine refused the new quota of an initialised repository
C23_Witness == reply.text = "Smallest quota would be"

\* the new quota of the command of session s is below the current usage of
\* its repository and fits the principal's quota
BelowUsage(s) ==
    LET c == session[s].cmd
        u == session[s].user
    IN  /\ c.new < QuotaUsed(PathOf(c.repo))
        /\ ~TooLarge(NewSize(SumQuota(ReposOf(u), repoQuota), c.old, c.new), u)

\* C24: when the setter rejects a new quota that is below the current usage of
\* the repository, the message names a minimum size, and that size is the
\* current usage.
C24_MinimumIsUsage ==
    [][\A s \in Sess :
        (Rejects(s) /\ BelowUsage(s))
            => /\ reply'.text \in {"Minimum size would be", "Smallest quota would be"}
               /\ reply'.size = QuotaUsed(PathOf(session[s].cmd.repo))
      ]_vars

\* the setter of session s saves the new quota in this step
Accepts(s) == session[s].pc = "quota: save" /\ session'[s].pc = "loop"

\* C25: quota changes of one principal are serialized: whenever a setter is
\* accepted, also next to a setter that another process runs at the same time
\* on another repository of the principal, the quotas of the principal's
\* repositories add up to no more than the principal's quota.
C25_ConcurrentSettersKeepSum ==
    [][\A s \in Sess :
        Accepts(s) => QuotaAllocated(session[s].user)' <= userQuota[session[s].user]
      ]_vars

\* C26: the setter holds the repository's lock from before its usage query
\* until the new quota is saved, so at no time is a quota setter at work on a
\* repository that a running serve session is bound to.
C26_SetterNotDuringServe ==
    \A s \in Sess, t \in Sess :
        ~(InSetter(s) /\ Running(t) /\ session[t].repo = session[s].cmd.repo)

\* a process dies in this step between the change of the storage tree and the
\* commit of the ledger, in the creation or deletion of a principal or of a
\* repository
DiesHalfway ==
    \/ \E u \in Users : CrashInUserAdd(u) \/ CrashInUserDelete(u)
    \/ \E u \in Users, r \in Repos : CrashInRepoCreate(u, r)
    \/ \E r \in Repos : CrashInRepoDelete(r)

\* C27: wherever a process dies between the change of the storage tree and
\* the write of the ledger, in the creation or deletion of a principal or of a
\* repository, in a state that passes the consistency check, the consistency
\* check of the next start fails.
C27_CrashIsDetected ==
    [][(AssertConsistency /\ DiesHalfway) => ~AssertConsistency']_vars

\* C28: whatever principals and repositories were created and deleted, every
\* repository row of the ledger refers to a principal whose row is in the
\* ledger.
C28_RepositoryHasOwner ==
    \A r \in Repos : repoOwner[r] # NoUser => userRow[repoOwner[r]]

\* the users the run has passed
Swept == {u \in Users : userRow[u] /\ \A i \in 1..Len(sweep.todo) : sweep.todo[i] # u}

\* the dates of the "serve succeeded with modification" entries of r
ModifyDates(r) ==
    {sweep.entries[r][i].date :
        i \in {j \in 1..Len(sweep.entries[r]) :
                  sweep.entries[r][j].op = "SERVE_MODIFY_SUCCESS"}}

\* r was created more than num_days ago, and so was every entry of ModifyDates
Stale(r) ==
    /\ sweep.created[r] + sweep.days < sweep.now
    /\ \A date \in ModifyDates(r) : date + sweep.days < sweep.now

\* C29: for a window of N days the run finds a repository too old exactly when
\* the repository was created more than N days ago and it has no "serve
\* succeeded with modification" entry, or the latest such entry is more than
\* N days old; a repository younger than N days is never found.
C29_StaleExactly ==
    sweep.pc # "off" =>
        \A u \in Swept : sweep.found[u] = {r \in ReposOf(u) : Stale(r)}

\* a repository was found whose latest entry of the kind is old and which has
\* a recent entry of another kind
C29_Witness ==
    /\ sweep.pc = "done"
    /\ \E u \in Swept : \E r \in sweep.found[u] :
         /\ ModifyDates(r) # {}
         /\ \E i \in 1..Len(sweep.entries[r]) : sweep.entries[r][i].date >= CheckDate

\* C30: a delivery that fails for one recipient does not end the run: when the
\* run is over, a delivery was attempted for every principal that has a stale
\* repository.
C30_FailureDoesNotAbort ==
    sweep.pc \in {"done", "NotificationSendmailError"} =>
        \A u \in Users :
            (userRow[u] /\ \E r \in ReposOf(u) : Stale(r)) => u \in sweep.attempts

(***************************************************************************)
(* Properties of the quota ledger, checked under SpecQuota.                *)
(***************************************************************************)

\* C4: the quotas of the repositories of a principal never add up to more
\* than the principal's quota, whatever quota changes and creations were
\* accepted.
C4_QuotaSum ==
    \A u \in Users : QuotaAllocated(u) <= userQuota[u]

\* C4 witness: a principal owns two repositories whose quotas use up the
\* principal's quota exactly.
C4_Witness ==
    \E u \in Users :
        /\ Cardinality(ReposOf(u)) >= 2
        /\ QuotaAllocated(u) = userQuota[u]
        /\ \E r \in ReposOf(u) : repoQuota[r] > GB

\* C5: a quota change of an existing repository is accepted only if the new
\* quota is at least the repository's current usage.
C5_QuotaNotBelowUsage ==
    [][\A r \in Repos :
        (/\ repoOwner[r] # NoUser /\ repoOwner'[r] = repoOwner[r]
         /\ repoQuota'[r] # repoQuota[r])
        => repoQuota'[r] >= QuotaUsed(PathOf(r))
      ]_vars

====
